---- MODULE Spec2Model ----
(***************************************************************************)
(* Verification model of the rainliu/sip signalling engine.                *)
(*                                                                         *)
(* Part 1 (Spec, FairSpec): the provider's concurrency engine              *)
(*   (provider.Run / Stop / ServeAccept / ServeConn, transaction.Close).   *)
(* Part 2 (CodecSpec): the message codec's Content-Length resolution and   *)
(*   the length-bounded body reader (ReadMessage, body.Read).              *)
(***************************************************************************)
EXTENDS Integers, Sequences, FiniteSets, TLC

(***************************************************************************)
(* Bounds of the model                                                     *)
(***************************************************************************)
NumTransports == 3      \* transports the application may configure
MaxConns      == 1      \* sockets the acceptors may accept in a run
NumTxns       == 2      \* transactions the application may create
NumStoppers   == 2      \* application tasks that may call Stop()
MaxHeaderLines == 2     \* header lines of a parsed message
MaxStream     == 3      \* bytes the stream holds after the blank line
MaxBuf        == 2      \* length of the buffer passed to body.Read
MaxTokens     == 3      \* space-separated tokens of a first line
MaxSeq        == 3      \* highest sequence number a dialog counts to
MaxMsgs       == 2      \* messages a peer writes on one connection

TransportIds == 1..NumTransports
ConnIds      == 1..MaxConns
TxnIds       == 1..NumTxns
StopperIds   == 1..NumStoppers
ListenerIds  == {1}

(***************************************************************************)
(* TransactionState (Transaction.go:15-22)                                 *)
(***************************************************************************)
TRANSACTIONSTATE_CALLING    == 0
TRANSACTIONSTATE_TRYING     == 1
TRANSACTIONSTATE_PROCEEDING == 2
TRANSACTIONSTATE_COMPLETED  == 3
TRANSACTIONSTATE_CONFIRMED  == 4
TRANSACTIONSTATE_TERMINATED == 5

(***************************************************************************)
(* Faults of the Go runtime: each one ends the whole process.              *)
(***************************************************************************)
NoFault          == "none"
PanicCloseQuit   == "panic: close of closed channel (provider.quit)"
PanicCloseTxQuit == "panic: close of closed channel (transaction.quit)"
FatalMapRace     == "fatal error: concurrent map iteration and map write"
PanicNilListener == "panic: nil pointer dereference (transport.lner)"

(***************************************************************************)
(* Network kinds of a transport (Response.go:808-813) and the kind each    *)
(* transport was created with (stack.CreateTransport, Stack.go:49-55).     *)
(***************************************************************************)
UDP  == "udp"
TCP  == "tcp"
TLS  == "tls"
SCTP == "sctp"

NetworkOf(t) ==
    CASE t % 4 = 1 -> TCP
      [] t % 4 = 2 -> UDP
      [] t % 4 = 3 -> TLS
      [] OTHER     -> SCTP

\* The transports that take connections, and the two transports (one
\* stream, one datagram) with which the whole engine is explored.
StreamTransports == {t \in TransportIds : NetworkOf(t) \in {TCP, TLS}}
CoreTransports   == {t \in TransportIds : NetworkOf(t) \in {TCP, UDP}}

\* transport.Listen (Response.go:889-903): the switch has a case for tcp
\* and for tls only; for any other kind nothing is assigned, so err and
\* this.lner keep their nil values. envOk is what net.Listen / tls.Listen
\* answers (the address can be bound or not).
Listen(network, envOk) ==
    IF network \in {TCP, TLS}
      THEN [err |-> IF envOk THEN "nil" ELSE "error", lner |-> envOk]
      ELSE [err |-> "nil", lner |-> FALSE]

\* transport.Dial (Response.go:871-886): the same switch; for any other
\* kind conn and err are returned as declared, both nil.
Dial(network, envOk) ==
    IF network \in {TCP, TLS}
      THEN [err |-> IF envOk THEN "nil" ELSE "error", conn |-> envOk]
      ELSE [err |-> "nil", conn |-> FALSE]

\* transport.SetDeadline (Response.go:923-929): only a *net.TCPListener
\* takes a deadline; tls.Listen returns another type and a nil listener
\* fails the type assertion too.
SetDeadline(network, lner) ==
    IF lner /\ network = TCP THEN "nil" ELSE "error"

VARIABLES
    \* ---- provider (TimeoutEvent.go:59-72) ----
    listeners,      \* provider.listeners
    transports,     \* provider.transports
    transactions,   \* provider.transactions
    quit,           \* provider.quit is closed
    waitGroup,      \* counter of provider.waitGroup
    \* ---- the task running provider.Run ----
    runPc,          \* "idle" | "listen" | "loop" | "join" | "leave" | "forward" | "done"
    runSnap,        \* entries of transports present when the range started
    runVisited,     \* entries of transports the range has produced
    runArg,         \* the value received by the select case being executed
    \* ---- acceptor and connection tasks ----
    acceptPc,       \* per transport: "none" | "check" | "accept" | "block" | "exited"
    connPc,         \* per socket: "none" | "check" | "read" | "send" | "exited"
    \* ---- callers of Stop() ----
    stopPc,         \* per caller: "idle" | "range" | "wait" | "returned"
    stopSnap,       \* entries of transactions present when the range started
    stopVisited,    \* entries of transactions the range has produced
    \* ---- transactions and the callers of GetNew*Transaction ----
    txState,        \* transaction.transactionState (of a created object)
    txQuit,         \* transaction.quit is closed
    regPc,          \* per transaction: "idle" | "send" | "done"
    \* ---- the results of t.Listen() that Run has seen ----
    listenErr,      \* per transport: "unset" | "nil" | "error"
    \* ---- process ----
    fault,
    \* ---- codec (Message.go) ----
    cPc,            \* "idle" | "input" | "parsed" | "failed" | "done" | "closed"
    cLines,         \* header lines of the input, each <<name, value>>
    cStream,        \* number of bytes the stream holds after the blank line
    cHeader,        \* message.header: canonical name -> sequence of values
    cLen,           \* message.contentLength
    cBody,          \* message.body: "nil" | "eofReader" | "body"
    cLimN,          \* io.LimitedReader.N of body.src
    cSawEOF,        \* body.sawEOF
    cGot,           \* bytes the consumer has been given
    cErr,           \* result of the last call: "nil" | "EOF" | ...
    \* ---- codec: start line and serialization ----
    sLine,          \* the first line of the input, a sequence of characters
    sReader,        \* "none" | "ReadRequest" | "ReadResponse" | "NewRequest" | ...
    sMsg,           \* request.method, requestURI / response.statusCode, ...
    wPc,            \* "idle" | "written" | "rewritten"
    wOut1,          \* what Write emitted for the message
    wOut2,          \* what Write emitted for the message read back from wOut1
    \* ---- objects handed to the application ----
    notified,       \* listeners on which a Process* method has been called
    call,           \* the last call on a transaction or message: op, arg, err
    dlg,            \* a Dialog: state, localSeq, remoteSeq
    \* ---- the first accepted socket and its connection task ----
    readErr,        \* per socket: what ReadMessage returned last
    sent,           \* the pieces of messages the peer has written
    sock,           \* the pieces that arrived and were not read yet
    rbuf,           \* the pieces in the bufio.Reader of the current read
    fwd             \* the messages the task has parsed, in order

provVars  == <<listeners, transports, transactions, quit, waitGroup,
               runPc, runSnap, runVisited, runArg, acceptPc, connPc,
               stopPc, stopSnap, stopVisited,
               txState, txQuit, regPc, listenErr, fault>>
wireVars  == <<sLine, sReader, sMsg, wPc, wOut1, wOut2>>
codecVars == <<cPc, cLines, cStream, cHeader, cLen, cBody, cLimN,
               cSawEOF, cGot, cErr, wireVars>>
streamVars == <<readErr, sent, sock, rbuf, fwd>>
objVars   == <<notified, call, dlg, streamVars>>
vars      == <<provVars, codecVars, objVars>>

\* What the provider's steps, and what the codec's steps, leave alone.
nonProvVars  == <<codecVars, objVars>>
nonCodecVars == <<provVars, objVars>>

(***************************************************************************)
(* Part 1: the provider engine                                             *)
(***************************************************************************)

\* A panic or a fatal error of the runtime ends every task of the process.
Alive == fault = NoFault

\* newProvider (TimeoutEvent.go:74-91) with no task started and no
\* transaction created.
ProviderInit ==
    /\ listeners = {}
    /\ transports = {}
    /\ transactions = {}
    /\ quit = FALSE
    /\ waitGroup = 0
    /\ runPc = "idle"
    /\ runSnap = {}
    /\ runVisited = {}
    /\ runArg = 0
    /\ acceptPc = [t \in TransportIds |-> "none"]
    /\ connPc = [c \in ConnIds |-> "none"]
    /\ stopPc = [s \in StopperIds |-> "idle"]
    /\ stopSnap = {}
    /\ stopVisited = {}
    /\ txState = [x \in TxnIds |-> TRANSACTIONSTATE_CALLING]
    /\ txQuit = [x \in TxnIds |-> FALSE]
    /\ regPc = [x \in TxnIds |-> "idle"]
    /\ listenErr = [t \in TransportIds |-> "unset"]
    /\ fault = NoFault

\* The process after a panic or a fatal error: no task and no object of
\* it is left, only the fault is.
Crash(f) ==
    /\ fault' = f
    /\ listeners' = {}
    /\ transports' = {}
    /\ transactions' = {}
    /\ quit' = FALSE
    /\ waitGroup' = 0
    /\ runPc' = "idle"
    /\ runSnap' = {}
    /\ runVisited' = {}
    /\ runArg' = 0
    /\ acceptPc' = [t \in TransportIds |-> "none"]
    /\ connPc' = [c \in ConnIds |-> "none"]
    /\ stopPc' = [s \in StopperIds |-> "idle"]
    /\ stopSnap' = {}
    /\ stopVisited' = {}
    /\ txState' = [x \in TxnIds |-> TRANSACTIONSTATE_CALLING]
    /\ txQuit' = [x \in TxnIds |-> FALSE]
    /\ regPc' = [x \in TxnIds |-> "idle"]
    /\ listenErr' = [t \in TransportIds |-> "unset"]

\* A range loop over a map is running in a task other than the writer's.
RunRanging  == runPc = "listen"
StopRanging == \E s \in StopperIds : stopPc[s] = "range"

\* Outcomes of a write to a map: the write takes effect, or, when another
\* task is iterating the same map, the runtime may end the process.
MapWriteFaults(ranging) == IF ranging THEN {NoFault, FatalMapRace} ELSE {NoFault}

\* provider.AddTransport (TimeoutEvent.go:93-95), called by the application.
AddTransport(t) ==
    /\ Alive
    /\ t \notin transports
    /\ \E f \in MapWriteFaults(RunRanging) :
         IF f = NoFault
           THEN /\ transports' = transports \cup {t}
                /\ UNCHANGED <<listeners, transactions, quit, waitGroup,
                               runPc, runSnap, runVisited, runArg, acceptPc,
                               connPc, stopPc, stopSnap, stopVisited,
                               txState, txQuit, regPc, fault,
                   listenErr>>
           ELSE Crash(f)
    /\ UNCHANGED nonProvVars

\* provider.RemoveTransport (TimeoutEvent.go:97-99).
RemoveTransport(t) ==
    /\ Alive
    /\ t \in transports
    /\ \E f \in MapWriteFaults(RunRanging) :
         IF f = NoFault
           THEN /\ transports' = transports \ {t}
                /\ UNCHANGED <<listeners, transactions, quit, waitGroup,
                               runPc, runSnap, runVisited, runArg, acceptPc,
                               connPc, stopPc, stopSnap, stopVisited,
                               txState, txQuit, regPc, fault,
                   listenErr>>
           ELSE Crash(f)
    /\ UNCHANGED nonProvVars

\* provider.AddListener (TimeoutEvent.go:101-103).
AddListener(l) ==
    /\ Alive
    /\ l \notin listeners
    /\ listeners' = listeners \cup {l}
    /\ UNCHANGED <<transports, transactions, quit, waitGroup, runPc, runSnap,
                   runVisited, runArg, acceptPc, connPc, stopPc, stopSnap,
                   stopVisited, txState, txQuit, regPc, fault,
                   listenErr, nonProvVars>>

\* provider.RemoveListener (TimeoutEvent.go:105-107).
RemoveListener(l) ==
    /\ Alive
    /\ l \in listeners
    /\ listeners' = listeners \ {l}
    /\ UNCHANGED <<transports, transactions, quit, waitGroup, runPc, runSnap,
                   runVisited, runArg, acceptPc, connPc, stopPc, stopSnap,
                   stopVisited, txState, txQuit, regPc, fault,
                   listenErr, nonProvVars>>

(***************************************************************************)
(* provider.Run (TimeoutEvent.go:131-164); stack.Run starts it with        *)
(* `go p.Run()` (Stack.go:97-101), so it runs beside the application.      *)
(***************************************************************************)

\* Entry of Run: the range over this.transports begins.
RunStart ==
    /\ Alive
    /\ runPc = "idle"
    /\ runPc' = "listen"
    /\ runSnap' = transports
    /\ runVisited' = {}
    /\ UNCHANGED <<listeners, transports, transactions, quit, waitGroup,
                   runArg, acceptPc, connPc, stopPc, stopSnap, stopVisited,
                   txState, txQuit, regPc, fault,
                   listenErr, nonProvVars>>

\* waitGroup.Add(1); go this.ServeAccept(t) (TimeoutEvent.go:137-138).
SpawnAccept(pcs, t) == [pcs EXCEPT ![t] = "check"]

\* A Run that started an acceptor whatever Listen returned.
StartsAcceptor_Always(err) == TRUE

\* `if err := t.Listen(); err != nil { ... } else { ... }`
\* (TimeoutEvent.go:133-139): the else branch starts the acceptor.
StartsAcceptor(err) == err = "nil"

\* One iteration of the range: t.Listen() returns an error (logged,
\* skipped) or nil (an acceptor is added to the wait group and started).
RunListen(t, ok) ==
    /\ Alive
    /\ runPc = "listen"
    /\ t \in transports \ runVisited
    /\ runVisited' = runVisited \cup {t}
    /\ listenErr' = [listenErr EXCEPT ![t] = Listen(NetworkOf(t), ok).err]
    /\ IF StartsAcceptor(Listen(NetworkOf(t), ok).err)
         THEN /\ waitGroup' = waitGroup + 1
              /\ acceptPc' = SpawnAccept(acceptPc, t)
         ELSE UNCHANGED <<waitGroup, acceptPc>>
    /\ UNCHANGED <<listeners, transports, transactions, quit, runPc, runSnap,
                   runArg, connPc, stopPc, stopSnap, stopVisited,
                   txState, txQuit, regPc, fault, nonProvVars>>

\* End of the range: every entry present at its start and still present
\* has been produced (an entry created during the range may be skipped).
RunEnterLoop ==
    /\ Alive
    /\ runPc = "listen"
    /\ (runSnap \cap transports) \subseteq runVisited
    /\ runPc' = "loop"
    /\ runSnap' = {}
    /\ runVisited' = {}
    /\ UNCHANGED <<listeners, transports, transactions, quit, waitGroup,
                   runArg, acceptPc, connPc, stopPc,
                   stopSnap, stopVisited, txState, txQuit, regPc, fault,
                   listenErr, nonProvVars>>

\* case <-this.quit: return (TimeoutEvent.go:145-147).
RunQuit ==
    /\ Alive
    /\ runPc = "loop"
    /\ quit
    /\ runPc' = "done"
    /\ UNCHANGED <<listeners, transports, transactions, quit, waitGroup,
                   runSnap, runVisited, runArg, acceptPc, connPc, stopPc,
                   stopSnap, stopVisited, txState, txQuit, regPc, fault,
                   listenErr, nonProvVars>>

\* A provider whose join channel had room for the value: the sender
\* returns without the control loop.
RunJoinRecv_Buffered(x) ==
    /\ Alive
    /\ regPc[x] = "send"
    /\ regPc' = [regPc EXCEPT ![x] = "done"]
    /\ UNCHANGED <<listeners, transports, transactions, quit, waitGroup,
                   runPc, runSnap, runVisited, runArg, acceptPc, connPc,
                   stopPc, stopSnap, stopVisited, txState, txQuit, fault,
                   listenErr, nonProvVars>>

\* case s := <-this.join (TimeoutEvent.go:149): the rendezvous with the
\* sender of GetNewClientTransaction / GetNewServerTransaction, which
\* returns (TimeoutEvent.go:115-116, 120-121).
RunJoinRecv(x) ==
    /\ Alive
    /\ runPc = "loop"
    /\ regPc[x] = "send"
    /\ regPc' = [regPc EXCEPT ![x] = "done"]
    /\ runPc' = "join"
    /\ runArg' = x
    /\ UNCHANGED <<listeners, transports, transactions, quit, waitGroup,
                   runSnap, runVisited, acceptPc, connPc, stopPc,
                   stopSnap, stopVisited, txState, txQuit, fault,
                   listenErr, nonProvVars>>

\* A control loop that replaced the registry by the joining transaction
\* instead of adding to it.
JoinInsert_Overwrite(reg, x) == {x}

\* this.transactions[s] = s (TimeoutEvent.go:150).
JoinInsert(reg, x) == reg \cup {x}

RunJoin ==
    /\ Alive
    /\ runPc = "join"
    /\ \E f \in MapWriteFaults(StopRanging) :
         IF f = NoFault
           THEN /\ transactions' = JoinInsert(transactions, runArg)
                /\ runPc' = "loop"
                /\ runArg' = 0
                /\ UNCHANGED <<listeners, transports, quit, waitGroup,
                               runSnap, runVisited, acceptPc, connPc, stopPc,
                               stopSnap, stopVisited, txState, txQuit, regPc,
                               fault,
                   listenErr>>
           ELSE Crash(f)
    /\ UNCHANGED nonProvVars

\* A task of the package that sent a transaction on this.join sends it
\* on this.leave, the way the connection task of the earlier provider
\* does (unnamed/part_004:313, 322): it blocks until the loop receives.
LeaveSend(x) ==
    /\ Alive
    /\ regPc[x] = "done"
    /\ regPc' = [regPc EXCEPT ![x] = "leaving"]
    /\ UNCHANGED <<listeners, transports, transactions, quit, waitGroup,
                   runPc, runSnap, runVisited, runArg, acceptPc, connPc,
                   stopPc, stopSnap, stopVisited, txState, txQuit, fault,
                   listenErr, nonProvVars>>

\* case s := <-this.leave (TimeoutEvent.go:152): the rendezvous with the
\* sender.
RunLeaveRecv(x) ==
    /\ Alive
    /\ runPc = "loop"
    /\ regPc[x] = "leaving"
    /\ regPc' = [regPc EXCEPT ![x] = "left"]
    /\ runPc' = "leave"
    /\ runArg' = x
    /\ UNCHANGED <<listeners, transports, transactions, quit, waitGroup,
                   runSnap, runVisited, acceptPc, connPc, stopPc,
                   stopSnap, stopVisited, txState, txQuit, fault,
                   listenErr, nonProvVars>>

\* A control loop whose leave case removed nothing.
LeaveDelete_Ignored(reg, x) == reg

\* delete(this.transactions, s) (TimeoutEvent.go:153).
LeaveDelete(reg, x) == reg \ {x}

RunLeave ==
    /\ Alive
    /\ runPc = "leave"
    /\ \E f \in MapWriteFaults(StopRanging) :
         IF f = NoFault
           THEN /\ transactions' = LeaveDelete(transactions, runArg)
                /\ runPc' = "loop"
                /\ runArg' = 0
                /\ UNCHANGED <<listeners, transports, quit, waitGroup,
                               runSnap, runVisited, acceptPc, connPc, stopPc,
                               stopSnap, stopVisited, txState, txQuit, regPc,
                               fault, listenErr>>
           ELSE Crash(f)
    /\ UNCHANGED nonProvVars

\* case msg := <-this.forward (TimeoutEvent.go:155): the rendezvous with
\* the connection task blocked in `this.forward <- msg`, which loops.
RunForwardRecv(c) ==
    /\ Alive
    /\ runPc = "loop"
    /\ connPc[c] = "send"
    /\ connPc' = [connPc EXCEPT ![c] = "check"]
    /\ runPc' = "forward"
    /\ runArg' = c
    /\ UNCHANGED <<listeners, transports, transactions, quit, waitGroup,
                   runSnap, runVisited, acceptPc, stopPc,
                   stopSnap, stopVisited, txState, txQuit, regPc, fault,
                   listenErr, nonProvVars>>

\* The listeners on which the forward case calls ProcessRequest or
\* ProcessResponse (TimeoutEvent.go:155-162): its body writes the start
\* line to a buffer and logs it, and calls no listener.
ForwardCalls(ls) == {}

\* msg.StartLineWrite(&buffer); log.Println (TimeoutEvent.go:156-161):
\* the message is logged, and nothing of the provider changes.
RunForward ==
    /\ Alive
    /\ runPc = "forward"
    /\ runPc' = "loop"
    /\ runArg' = 0
    /\ notified' = notified \cup ForwardCalls(listeners)
    /\ UNCHANGED <<listeners, transports, transactions, quit, waitGroup,
                   runSnap, runVisited, acceptPc, connPc, stopPc,
                   stopSnap, stopVisited, txState, txQuit, regPc, fault,
                   listenErr, codecVars, call, dlg, streamVars>>

(***************************************************************************)
(* provider.ServeAccept (TimeoutEvent.go:174-197)                          *)
(***************************************************************************)

\* this.lner of a transport whose acceptor Run has started: what Listen
\* assigned when it returned the nil error Run saw.
HasListener(t) == Listen(NetworkOf(t), TRUE).lner

\* t.SetDeadline(time.Now().Add(1e9)); conn, err := t.Accept()
\* (TimeoutEvent.go:186-187): the error of SetDeadline is dropped, and
\* Accept() returns within the deadline ("accept") only if it was set;
\* otherwise it blocks until a peer connects or the listener fails
\* ("block").
AcceptCall(deadlineErr) == IF deadlineErr = "nil" THEN "accept" ELSE "block"

InAccept(t) == acceptPc[t] \in {"accept", "block"}

\* The errors Accept() can return: a timeout only under a deadline.
AcceptErrors(pc) == IF pc = "accept" THEN {"timeout", "error"} ELSE {"error"}

\* An acceptor that gave up on an error other than a timeout.
AfterAcceptErr_Exit(outcome) == IF outcome = "timeout" THEN "check" ELSE "exited"

\* if err != nil { if !timeout { log.Println(err) }; continue }
\* (TimeoutEvent.go:188-193): both kinds of error go round the loop.
AfterAcceptErr(outcome) == "check"

\* `defer t.lner.Close()` (TimeoutEvent.go:176) takes the method of a nil
\* interface value when the transport has no listener: the task panics.
\* Otherwise select { case <-this.quit: return; default: } with the
\* deferred t.lner.Close() and this.waitGroup.Done().
AcceptCheck(t) ==
    /\ Alive
    /\ acceptPc[t] = "check"
    /\ IF ~HasListener(t)
         THEN Crash(PanicNilListener)
         ELSE /\ IF quit
                   THEN /\ acceptPc' = [acceptPc EXCEPT ![t] = "exited"]
                        /\ waitGroup' = waitGroup - 1
                   ELSE /\ acceptPc' = [acceptPc EXCEPT ![t] =
                               AcceptCall(SetDeadline(NetworkOf(t), HasListener(t)))]
                        /\ UNCHANGED waitGroup
              /\ UNCHANGED <<listeners, transports, transactions, quit,
                             runPc, runSnap, runVisited, runArg, connPc,
                             stopPc, stopSnap, stopVisited, txState, txQuit,
                             regPc, fault, listenErr>>
    /\ UNCHANGED nonProvVars

\* t.SetDeadline; t.Accept() returns an error (a timeout or any other):
\* `continue`.
AcceptFail(t, outcome) ==
    /\ Alive
    /\ InAccept(t)
    /\ outcome \in AcceptErrors(acceptPc[t])
    /\ acceptPc' = [acceptPc EXCEPT ![t] = AfterAcceptErr(outcome)]
    /\ UNCHANGED <<listeners, transports, transactions, quit, waitGroup,
                   runPc, runSnap, runVisited, runArg, connPc, stopPc,
                   stopSnap, stopVisited, txState, txQuit, regPc, fault,
                   listenErr, nonProvVars>>

\* t.Accept() returns a socket: waitGroup.Add(1); go this.ServeConn(conn).
AcceptConn(t, c) ==
    /\ Alive
    /\ InAccept(t)
    /\ connPc[c] = "none"
    /\ waitGroup' = waitGroup + 1
    /\ connPc' = [connPc EXCEPT ![c] = "check"]
    /\ acceptPc' = [acceptPc EXCEPT ![t] = "check"]
    /\ UNCHANGED <<listeners, transports, transactions, quit,
                   runPc, runSnap, runVisited, runArg, stopPc,
                   stopSnap, stopVisited, txState, txQuit, regPc, fault,
                   listenErr, nonProvVars>>

(***************************************************************************)
(* provider.ServeConn (TimeoutEvent.go:199-224)                            *)
(***************************************************************************)

\* select { case <-this.quit: return; default: } with the deferred
\* conn.Close() and this.waitGroup.Done().
ConnCheck(c) ==
    /\ Alive
    /\ connPc[c] = "check"
    /\ IF quit
         THEN /\ connPc' = [connPc EXCEPT ![c] = "exited"]
              /\ waitGroup' = waitGroup - 1
         ELSE /\ connPc' = [connPc EXCEPT ![c] = "read"]
              /\ UNCHANGED waitGroup
    /\ UNCHANGED <<listeners, transports, transactions, quit, runPc, runSnap,
                   runVisited, runArg, acceptPc, stopPc, stopSnap, stopVisited,
                   txState, txQuit, regPc, fault,
                   listenErr, nonProvVars>>

\* A connection task for which a deadline timeout was an error like any
\* other.
AfterRead_TimeoutFails(outcome) ==
    IF outcome = "message" THEN "send" ELSE "exited"

\* The position of the task after ReadMessage returned (TimeoutEvent.go:
\* 213-222): a deadline timeout loops, any other error returns, a message
\* is sent on this.forward.
AfterRead(outcome) ==
    CASE outcome = "timeout" -> "check"
      [] outcome = "error"   -> "exited"
      [] outcome = "message" -> "send"

ReadOutcomes == {"timeout", "error", "message"}

\* The err of `msg, err := ReadMessage(...)` (TimeoutEvent.go:213).
ErrOfRead(outcome) == IF outcome = "message" THEN "nil" ELSE outcome

ConnRead(c, outcome) ==
    /\ Alive
    /\ connPc[c] = "read"
    /\ readErr' = [readErr EXCEPT ![c] = ErrOfRead(outcome)]
    /\ connPc' = [connPc EXCEPT ![c] = AfterRead(outcome)]
    /\ waitGroup' = IF AfterRead(outcome) = "exited" THEN waitGroup - 1
                                                     ELSE waitGroup
    /\ UNCHANGED <<listeners, transports, transactions, quit, runPc, runSnap,
                   runVisited, runArg, acceptPc, stopPc, stopSnap, stopVisited,
                   txState, txQuit, regPc, fault,
                   listenErr, codecVars, notified, call, dlg,
                   sent, sock, rbuf, fwd>>

(***************************************************************************)
(* The byte stream of an accepted connection.  A peer writes messages on   *)
(* the socket in pieces: "start" is the start line with the first header   *)
(* lines, "end" the remaining header lines and the blank line of a message *)
(* without a body, "endcl" the same of a message with Content-Length > 0,  *)
(* and "body" its body.  A piece <<k, part>> belongs to the k-th message.  *)
(* sent is what the peer wrote, sock what the socket holds unread, rbuf    *)
(* the buffer of the bufio.Reader of the current ReadMessage call, and fwd *)
(* the messages ReadMessage returned, each put on this.forward.            *)
(***************************************************************************)

\* The connection whose stream is followed.
StreamConn == 1

\* The pieces a well-formed peer may write after what it wrote.
PeerPieces(s) ==
    IF s = <<>> THEN {<<1, "start">>}
    ELSE LET k == s[Len(s)][1]
             part == s[Len(s)][2]
         IN  CASE part = "start" -> {<<k, "end">>, <<k, "endcl">>}
               [] part = "endcl" -> {<<k, "body">>}
               [] OTHER -> IF k < MaxMsgs THEN {<<k + 1, "start">>} ELSE {}

\* The peer writes the next piece on the open connection.
PeerSend(c, piece) ==
    /\ Alive
    /\ c = StreamConn
    /\ connPc[c] \notin {"none", "exited"}
    /\ piece \in PeerPieces(sent)
    /\ sent' = Append(sent, piece)
    /\ sock' = Append(sock, piece)
    /\ UNCHANGED <<provVars, codecVars, notified, call, dlg, readErr, rbuf,
                   fwd>>

\* ReadRequest has a start line and ReadMIMEHeader its blank line
\* (unnamed/part_003:113-134, Message.go:74): the head of a message is
\* in the buffer.
HeadComplete(b) ==
    /\ Len(b) >= 2
    /\ b[1][2] = "start"
    /\ b[2][2] \in {"end", "endcl"}

\* The first line of the buffer is no start line: parseRequestLine or
\* ParseSIPVersion fails on a header line, a blank line or a body line
\* (unnamed/part_003:123-130).
MalformedStart(b) == b # <<>> /\ b[1][2] # "start"

\* What a ReadMessage call does next with buffer b and socket s: it
\* returns a message or a parse error, or it needs bytes, which a Read
\* of the socket supplies unless the socket is empty until the deadline
\* set at TimeoutEvent.go:212.
ReadResult(b, s) ==
    CASE HeadComplete(b)   -> "message"
      [] MalformedStart(b) -> "error"
      [] OTHER             -> IF s = <<>> THEN "timeout" ELSE "fill"

\* bufio.Reader.fill: one conn.Read, which returns the bytes the socket
\* holds, whatever message they belong to.
ConnFill(c) ==
    /\ Alive
    /\ c = StreamConn
    /\ connPc[c] = "read"
    /\ ReadResult(rbuf, sock) = "fill"
    /\ rbuf' = rbuf \o sock
    /\ sock' = <<>>
    /\ UNCHANGED <<provVars, codecVars, notified, call, dlg, readErr, sent,
                   fwd>>

\* ReadMessage(bufio.NewReader(conn)) returns (TimeoutEvent.go:213-222).
\* The reader was made for this call and ServeConn keeps no reference to
\* it: what it buffered and did not parse goes with it.  The body is
\* bound lazily to the reader and the socket (Message.go:105-109), so a
\* body piece still on the socket stays there.
ConnReadMessage(c) ==
    LET outcome == ReadResult(rbuf, sock) IN
    /\ Alive
    /\ c = StreamConn
    /\ connPc[c] = "read"
    /\ outcome \in ReadOutcomes
    /\ readErr' = [readErr EXCEPT ![c] = ErrOfRead(outcome)]
    /\ connPc' = [connPc EXCEPT ![c] = AfterRead(outcome)]
    /\ waitGroup' = IF AfterRead(outcome) = "exited" THEN waitGroup - 1
                                                     ELSE waitGroup
    /\ fwd' = IF outcome = "message" THEN Append(fwd, rbuf[1][1]) ELSE fwd
    /\ rbuf' = <<>>
    /\ UNCHANGED <<listeners, transports, transactions, quit, runPc, runSnap,
                   runVisited, runArg, acceptPc, stopPc, stopSnap, stopVisited,
                   txState, txQuit, regPc, fault,
                   listenErr, codecVars, notified, call, dlg, sent, sock>>

(***************************************************************************)
(* Transactions                                                            *)
(***************************************************************************)

\* newClientTransaction (ClientTransaction.go:15-22) and
\* newServerTransaction (unnamed/part_002:13-20): only request and quit
\* are set, transactionState keeps the zero value of its type.
NewTransactionState(role) == TRANSACTIONSTATE_CALLING

\* The transaction objects of a run: the odd ones are created by
\* GetNewClientTransaction, the even ones by GetNewServerTransaction.
TxRole(x) == IF x % 2 = 1 THEN "client" ELSE "server"

\* GetNewClientTransaction / GetNewServerTransaction up to the send on
\* this.join (TimeoutEvent.go:113-115, 118-120).
GetNewTransaction(x) ==
    /\ Alive
    /\ regPc[x] = "idle"
    /\ txState' = [txState EXCEPT ![x] = NewTransactionState(TxRole(x))]
    /\ regPc' = [regPc EXCEPT ![x] = "send"]
    /\ UNCHANGED <<listeners, transports, transactions, quit, waitGroup,
                   runPc, runSnap, runVisited, runArg, acceptPc, connPc,
                   stopPc, stopSnap, stopVisited, txQuit, fault,
                   listenErr, nonProvVars>>

\* close(ch) of a channel that is open (FALSE) or closed (TRUE): closing
\* a closed channel panics.
CloseChan(closed, panic) == IF closed THEN panic ELSE NoFault

\* transaction.transactionState after Close() (Transaction.go:61-63):
\* Close only closes this.quit.
StateAfterClose(st) == st

\* transaction.Close (Transaction.go:61-63): close(this.quit).
TransactionClose(x) ==
    /\ txQuit' = [txQuit EXCEPT ![x] = TRUE]
    /\ txState' = [txState EXCEPT ![x] = StateAfterClose(txState[x])]

\* The application calls Close() on a transaction it obtained from
\* GetNewClientTransaction / GetNewServerTransaction.
AppClose(x) ==
    /\ Alive
    /\ regPc[x] = "done"
    /\ IF CloseChan(txQuit[x], PanicCloseTxQuit) = NoFault
         THEN /\ TransactionClose(x)
              /\ UNCHANGED <<listeners, transports, transactions, quit,
                             waitGroup, runPc, runSnap, runVisited, runArg,
                             acceptPc, connPc, stopPc, stopSnap, stopVisited,
                             regPc, fault,
                   listenErr>>
         ELSE Crash(PanicCloseTxQuit)
    /\ UNCHANGED nonProvVars

(***************************************************************************)
(* provider.Stop (TimeoutEvent.go:166-172); stack.Stop calls it            *)
(* (Stack.go:103-107).                                                     *)
(***************************************************************************)

\* close(this.quit), then the range over this.transactions begins.
StopCloseQuit(s) ==
    /\ Alive
    /\ stopPc[s] = "idle"
    /\ IF CloseChan(quit, PanicCloseQuit) = NoFault
         THEN /\ quit' = TRUE
              /\ stopPc' = [stopPc EXCEPT ![s] = "range"]
              /\ stopSnap' = transactions
              /\ stopVisited' = {}
              /\ UNCHANGED <<listeners, transports, transactions, waitGroup,
                             runPc, runSnap, runVisited, runArg, acceptPc,
                             connPc, txState, txQuit, regPc, fault,
                   listenErr>>
         ELSE Crash(PanicCloseQuit)
    /\ UNCHANGED nonProvVars

\* One iteration of the range: s.Close().
StopCloseTransaction(s, x) ==
    /\ Alive
    /\ stopPc[s] = "range"
    /\ x \in transactions \ stopVisited
    /\ IF CloseChan(txQuit[x], PanicCloseTxQuit) = NoFault
         THEN /\ TransactionClose(x)
              /\ stopVisited' = stopVisited \cup {x}
              /\ UNCHANGED <<listeners, transports, transactions, quit,
                             waitGroup, runPc, runSnap, runVisited, runArg,
                             acceptPc, connPc, stopPc, stopSnap, regPc, fault,
                   listenErr>>
         ELSE Crash(PanicCloseTxQuit)
    /\ UNCHANGED nonProvVars

\* The registry as Stop leaves it: Stop removes nothing from it.
RegistryAfterStop(reg) == reg

\* The transports on which Stop calls Close (TimeoutEvent.go:166-172):
\* Stop ranges over this.transactions only, and a Transport has no
\* Close method (Response.go:815-825).
StopClosesTransports(ts) == {}

\* End of the range (an entry created during the range may be skipped);
\* Stop goes on to this.waitGroup.Wait().
StopRangeEnd(s) ==
    /\ Alive
    /\ stopPc[s] = "range"
    /\ (stopSnap \cap transactions) \subseteq stopVisited
    /\ stopPc' = [stopPc EXCEPT ![s] = "wait"]
    /\ transactions' = RegistryAfterStop(transactions)
    /\ stopSnap' = {}
    /\ stopVisited' = {}
    /\ UNCHANGED <<listeners, transports, quit, waitGroup,
                   runPc, runSnap, runVisited, runArg, acceptPc, connPc,
                   txState, txQuit, regPc, fault,
                   listenErr, nonProvVars>>

\* this.waitGroup.Wait() returns when the counter is zero.
WaitReturns(counter) == counter = 0

StopReturn(s) ==
    /\ Alive
    /\ stopPc[s] = "wait"
    /\ WaitReturns(waitGroup)
    /\ stopPc' = [stopPc EXCEPT ![s] = "returned"]
    /\ UNCHANGED <<listeners, transports, transactions, quit, waitGroup,
                   runPc, runSnap, runVisited, runArg, acceptPc, connPc,
                   stopSnap, stopVisited, txState, txQuit, regPc, fault,
                   listenErr, nonProvVars>>

(***************************************************************************)
(* Specification of the provider engine                                    *)
(***************************************************************************)

\* The codec is at rest while the provider engine is explored.
NoStartLine ==
    [method |-> <<>>, requestURI |-> <<>>, sipVersion |-> <<>>,
     statusCode |-> 0, reasonPhrase |-> <<>>]

NoOutput == [err |-> "nil", line |-> <<>>, headers |-> <<>>, body |-> 0]

\* No start line has been read and nothing has been written.
WireIdle ==
    /\ sLine = <<>>
    /\ sReader = "none"
    /\ sMsg = NoStartLine
    /\ wPc = "idle"
    /\ wOut1 = NoOutput
    /\ wOut2 = NoOutput

CodecIdle ==
    /\ WireIdle
    /\ cPc = "idle"
    /\ cLines = <<>>
    /\ cStream = 0
    /\ cHeader = <<>>
    /\ cLen = 0
    /\ cBody = "nil"
    /\ cLimN = 0
    /\ cSawEOF = FALSE
    /\ cGot = 0
    /\ cErr = "nil"

\* No listener has been called, no call has been made on a transaction
\* and no dialog exists.
NoCall   == [op |-> "none", txn |-> 0, before |-> 0, closed |-> FALSE,
             arg |-> <<>>, err |-> "nil"]
NoDialog == [op |-> "none", state |-> 0, localSeq |-> 0, remoteSeq |-> 0,
             err |-> "nil"]

ObjIdle ==
    /\ notified = {}
    /\ call = NoCall
    /\ dlg = NoDialog
    /\ readErr = [c \in ConnIds |-> "none"]
    /\ sent = <<>>
    /\ sock = <<>>
    /\ rbuf = <<>>
    /\ fwd = <<>>

Init == ProviderInit /\ CodecIdle /\ ObjIdle

Next ==
    \/ RunStart
    \/ \E t \in CoreTransports, ok \in BOOLEAN : RunListen(t, ok)
    \/ RunEnterLoop
    \/ RunQuit
    \/ \E x \in TxnIds : RunJoinRecv(x)
    \/ RunJoin
    \/ \E c \in ConnIds : RunForwardRecv(c)
    \/ RunForward
    \/ \E t \in CoreTransports : AcceptCheck(t)
    \/ \E t \in CoreTransports, o \in {"timeout", "error"} : AcceptFail(t, o)
    \/ \E t \in CoreTransports, c \in ConnIds : AcceptConn(t, c)
    \/ \E c \in ConnIds : ConnCheck(c)
    \/ \E c \in ConnIds, o \in ReadOutcomes : ConnRead(c, o)
    \/ \E s \in StopperIds : StopCloseQuit(s)
    \/ \E s \in StopperIds, x \in TxnIds : StopCloseTransaction(s, x)
    \/ \E s \in StopperIds : StopRangeEnd(s)
    \/ \E s \in StopperIds : StopReturn(s)
    \/ \E t \in CoreTransports : AddTransport(t)
    \/ \E t \in CoreTransports : RemoveTransport(t)
    \/ \E l \in ListenerIds : AddListener(l)
    \/ \E l \in ListenerIds : RemoveListener(l)
    \/ \E x \in TxnIds : GetNewTransaction(x)
    \/ \E x \in TxnIds : AppClose(x)

Spec == Init /\ [][Next]_vars

\* The steps of the tasks the program has started. What the application
\* and the peers do (calling the API, connecting, sending) is not forced.
RunStep ==
    \/ \E t \in CoreTransports, ok \in BOOLEAN : RunListen(t, ok)
    \/ RunEnterLoop
    \/ RunQuit
    \/ \E x \in TxnIds : RunJoinRecv(x)
    \/ RunJoin
    \/ \E c \in ConnIds : RunForwardRecv(c)
    \/ RunForward

\* An acceptor's own steps: Accept() is certain to return (with a timeout)
\* only when the deadline could be set.
AcceptStep(t) ==
    \/ AcceptCheck(t)
    \/ AcceptFail(t, "timeout")

ConnStep(c) == ConnCheck(c) \/ \E o \in ReadOutcomes : ConnRead(c, o)

StopStep(s) ==
    \/ \E x \in TxnIds : StopCloseTransaction(s, x)
    \/ StopRangeEnd(s)
    \/ StopReturn(s)

\* The Go scheduler runs every runnable goroutine again and again.
Fairness ==
    /\ WF_vars(RunStep)
    /\ \A t \in CoreTransports : WF_vars(AcceptStep(t))
    /\ \A c \in ConnIds : WF_vars(ConnStep(c))
    /\ \A s \in StopperIds : WF_vars(StopStep(s))

FairSpec == Init /\ [][Next]_vars /\ Fairness

\* The provider engine as an application uses it to register
\* transactions: it configures transports, starts Run, registers
\* transactions and calls Stop, while peers connect and send.
JoinNext ==
    \/ RunStart
    \/ \E t \in StreamTransports, ok \in BOOLEAN : RunListen(t, ok)
    \/ RunEnterLoop
    \/ RunQuit
    \/ \E x \in TxnIds : RunJoinRecv(x)
    \/ RunJoin
    \/ \E c \in ConnIds : RunForwardRecv(c)
    \/ RunForward
    \/ \E t \in StreamTransports : AcceptCheck(t)
    \/ \E t \in StreamTransports, o \in {"timeout", "error"} : AcceptFail(t, o)
    \/ \E t \in StreamTransports, c \in ConnIds : AcceptConn(t, c)
    \/ \E c \in ConnIds : ConnCheck(c)
    \/ \E c \in ConnIds, o \in ReadOutcomes : ConnRead(c, o)
    \/ \E s \in StopperIds : StopCloseQuit(s)
    \/ \E s \in StopperIds, x \in TxnIds : StopCloseTransaction(s, x)
    \/ \E s \in StopperIds : StopRangeEnd(s)
    \/ \E s \in StopperIds : StopReturn(s)
    \/ \E t \in StreamTransports : AddTransport(t)
    \/ \E x \in TxnIds : GetNewTransaction(x)

JoinSpec == Init /\ [][JoinNext]_vars

\* The control loop with tasks that register transactions and take them
\* out of the registry again, and with callers of Stop.
LeaveNext ==
    \/ RunStart
    \/ RunEnterLoop
    \/ RunQuit
    \/ \E x \in TxnIds : GetNewTransaction(x)
    \/ \E x \in TxnIds : RunJoinRecv(x)
    \/ RunJoin
    \/ \E x \in TxnIds : LeaveSend(x)
    \/ \E x \in TxnIds : RunLeaveRecv(x)
    \/ RunLeave
    \/ \E s \in StopperIds : StopCloseQuit(s)
    \/ \E s \in StopperIds, x \in TxnIds : StopCloseTransaction(s, x)
    \/ \E s \in StopperIds : StopRangeEnd(s)
    \/ \E s \in StopperIds : StopReturn(s)

LeaveSpec == Init /\ [][LeaveNext]_vars

\* The application closes a transaction that nobody has closed yet.
AppCloseOnce(x) ==
    /\ ~txQuit[x]
    /\ AppClose(x)

\* The engine with an application that registers transactions, closes
\* each of them at most once, and calls Stop.
ShutdownNext ==
    \/ RunStart
    \/ RunEnterLoop
    \/ RunQuit
    \/ \E x \in TxnIds : GetNewTransaction(x)
    \/ \E x \in TxnIds : RunJoinRecv(x)
    \/ RunJoin
    \/ \E x \in TxnIds : AppCloseOnce(x)
    \/ \E s \in StopperIds : StopCloseQuit(s)
    \/ \E s \in StopperIds, x \in TxnIds : StopCloseTransaction(s, x)
    \/ \E s \in StopperIds : StopRangeEnd(s)
    \/ \E s \in StopperIds : StopReturn(s)

ShutdownSpec == Init /\ [][ShutdownNext]_vars

\* provider.AddTransport called before the engine is started, the way
\* main() configures a stack before stack.Run().
ConfigureTransport(t) ==
    /\ runPc = "idle"
    /\ AddTransport(t)

\* The engine from its start to its stop: transports of every kind are
\* configured, Run listens on each one, peers connect and send, and
\* Stop is called.
StartNext ==
    \/ \E t \in TransportIds : ConfigureTransport(t)
    \/ RunStart
    \/ \E t \in TransportIds, ok \in BOOLEAN : RunListen(t, ok)
    \/ RunEnterLoop
    \/ RunQuit
    \/ \E c \in ConnIds : RunForwardRecv(c)
    \/ RunForward
    \/ \E t \in TransportIds : AcceptCheck(t)
    \/ \E t \in TransportIds, o \in {"timeout", "error"} : AcceptFail(t, o)
    \/ \E t \in TransportIds, c \in ConnIds : AcceptConn(t, c)
    \/ \E c \in ConnIds : ConnCheck(c)
    \/ \E c \in ConnIds, o \in ReadOutcomes : ConnRead(c, o)
    \/ \E s \in StopperIds : StopCloseQuit(s)
    \/ \E s \in StopperIds : StopRangeEnd(s)
    \/ \E s \in StopperIds : StopReturn(s)

\* The steps of Run between its entry and its select loop.
StartupStep ==
    \/ \E t \in TransportIds, ok \in BOOLEAN : RunListen(t, ok)
    \/ RunEnterLoop

StartSpec == Init /\ [][StartNext]_vars /\ WF_vars(StartupStep)

\* A running engine with stream transports and one peer, which connects
\* and writes well-formed messages; nobody calls Stop.
ConnNext ==
    \/ \E t \in StreamTransports : ConfigureTransport(t)
    \/ RunStart
    \/ \E t \in StreamTransports, ok \in BOOLEAN : RunListen(t, ok)
    \/ RunEnterLoop
    \/ RunForwardRecv(StreamConn)
    \/ RunForward
    \/ \E t \in StreamTransports : AcceptCheck(t)
    \/ \E t \in StreamTransports, o \in {"timeout", "error"} : AcceptFail(t, o)
    \/ \E t \in StreamTransports : AcceptConn(t, StreamConn)
    \/ ConnCheck(StreamConn)
    \/ \E piece \in (1..MaxMsgs) \X {"start", "end", "endcl", "body"} :
          PeerSend(StreamConn, piece)
    \/ ConnFill(StreamConn)
    \/ ConnReadMessage(StreamConn)

ConnSpec == Init /\ [][ConnNext]_vars

(***************************************************************************)
(* The operations of a transaction the application holds                   *)
(* (Transaction.go:34-63, ClientTransaction.go:24-34,                      *)
(* unnamed/part_002:22-24).                                                *)
(***************************************************************************)

\* The method of the request a transaction is created for: the first
\* client and the first server transaction carry an INVITE, the next two
\* a REGISTER.
MethodOf(x) == IF ((x - 1) \div 2) % 2 = 0 THEN "INVITE" ELSE "REGISTER"

TransactionStates ==
    {TRANSACTIONSTATE_CALLING, TRANSACTIONSTATE_TRYING,
     TRANSACTIONSTATE_PROCEEDING, TRANSACTIONSTATE_COMPLETED,
     TRANSACTIONSTATE_CONFIRMED, TRANSACTIONSTATE_TERMINATED}

\* A call of `op` on transaction x returned err; the state and the quit
\* channel of x were as recorded when it was made.
Called(op, x, err) ==
    call' = [op |-> op, txn |-> x, before |-> txState[x],
             closed |-> txQuit[x], arg |-> <<>>, err |-> err]

\* What an operation leaves alone besides the transaction's state.
TxFrame ==
    UNCHANGED <<listeners, transports, transactions, quit, waitGroup,
                runPc, runSnap, runVisited, runArg, acceptPc, connPc,
                stopPc, stopSnap, stopVisited, txQuit, regPc, fault,
                listenErr, codecVars, notified, dlg, streamVars>>

\* transaction.SetState (Transaction.go:43-45): the field is assigned
\* whatever its value is.
SetState(x, transactionState) ==
    /\ Alive
    /\ regPc[x] = "done"
    /\ txState' = [txState EXCEPT ![x] = transactionState]
    /\ Called("SetState", x, "nil")
    /\ TxFrame

\* transaction.SetRetransmitTimer (Transaction.go:49-51): only
\* retransmitTimer is assigned.
SetRetransmitTimer(x) ==
    /\ Alive
    /\ regPc[x] = "done"
    /\ Called("SetRetransmitTimer", x, "nil")
    /\ UNCHANGED txState
    /\ TxFrame

\* clientTransaction.SendRequest (ClientTransaction.go:24-26): return nil.
SendRequest(x) ==
    /\ Alive
    /\ regPc[x] = "done"
    /\ TxRole(x) = "client"
    /\ Called("SendRequest", x, "nil")
    /\ UNCHANGED txState
    /\ TxFrame

\* clientTransaction.CreateCancel (ClientTransaction.go:28-30):
\* return nil, nil.
CreateCancel(x) ==
    /\ Alive
    /\ regPc[x] = "done"
    /\ TxRole(x) = "client"
    /\ Called("CreateCancel", x, "nil")
    /\ UNCHANGED txState
    /\ TxFrame

\* clientTransaction.CreateAck (ClientTransaction.go:32-34):
\* return nil, nil.
CreateAck(x) ==
    /\ Alive
    /\ regPc[x] = "done"
    /\ TxRole(x) = "client"
    /\ Called("CreateAck", x, "nil")
    /\ UNCHANGED txState
    /\ TxFrame

\* serverTransaction.SendResponse (unnamed/part_002:22-24): return nil.
SendResponse(x) ==
    /\ Alive
    /\ regPc[x] = "done"
    /\ TxRole(x) = "server"
    /\ Called("SendResponse", x, "nil")
    /\ UNCHANGED txState
    /\ TxFrame

\* An application that creates transactions with a running provider and
\* calls their operations.
TxNext ==
    \/ RunStart
    \/ RunEnterLoop
    \/ \E x \in TxnIds : GetNewTransaction(x)
    \/ \E x \in TxnIds : RunJoinRecv(x)
    \/ RunJoin
    \/ \E x \in TxnIds : AppClose(x)
    \/ \E x \in TxnIds, st \in TransactionStates : SetState(x, st)
    \/ \E x \in TxnIds : SetRetransmitTimer(x)
    \/ \E x \in TxnIds : SendRequest(x)
    \/ \E x \in TxnIds : CreateCancel(x)
    \/ \E x \in TxnIds : CreateAck(x)
    \/ \E x \in TxnIds : SendResponse(x)

TxSpec == Init /\ [][TxNext]_vars

(***************************************************************************)
(* Dialog (Dialog.go:3-34). The interface and its states are declared;     *)
(* the operations follow the dialog state machine of the specification.    *)
(***************************************************************************)
DIALOGSTATE_EARLY      == 0
DIALOGSTATE_CONFIRMED  == 1
DIALOGSTATE_COMPLETED  == 2
DIALOGSTATE_TERMINATED == 3

\* What a dialog operation leaves alone.
DialogFrame == UNCHANGED <<provVars, codecVars, notified, call, streamVars>>

DialogExists == dlg.op # "none"

\* A dialog is created on a dialog-establishing response, in Early, with
\* the sequence numbers of the request and the response that made it.
NewDialog(localSeq, remoteSeq) ==
    /\ ~DialogExists
    /\ dlg' = [op |-> "NewDialog", state |-> DIALOGSTATE_EARLY,
               localSeq |-> localSeq, remoteSeq |-> remoteSeq, err |-> "nil"]
    /\ DialogFrame

\* An increment that lost the update.
NextLocalSeq_Lost(n) == n

\* local sequence counter += 1.
NextLocalSeq(n) == n + 1

\* Dialog.IncrementLocalSequenceNumber.
IncrementLocalSequenceNumber ==
    /\ DialogExists
    /\ dlg.localSeq < MaxSeq
    /\ dlg' = [dlg EXCEPT !.op = "IncrementLocalSequenceNumber",
                          !.localSeq = NextLocalSeq(dlg.localSeq),
                          !.err = "nil"]
    /\ DialogFrame

\* Dialog.CreateRequest(method): the request carries the current local
\* sequence number; it fails if the dialog is Terminated.
CreateRequest ==
    /\ DialogExists
    /\ dlg' = [dlg EXCEPT !.op = "CreateRequest",
                          !.err = IF dlg.state = DIALOGSTATE_TERMINATED
                                    THEN "error" ELSE "nil"]
    /\ DialogFrame

\* The remote side issues an in-dialog request: it has incremented its
\* counter, which the dialog records.
RemoteRequest ==
    /\ DialogExists
    /\ dlg.state # DIALOGSTATE_TERMINATED
    /\ dlg.remoteSeq < MaxSeq
    /\ dlg' = [dlg EXCEPT !.op = "RemoteRequest",
                          !.remoteSeq = dlg.remoteSeq + 1, !.err = "nil"]
    /\ DialogFrame

\* Early -> Confirmed (a final 2xx acknowledged) -> Completed (session
\* ended).
DialogAdvance ==
    /\ DialogExists
    /\ dlg.state \in {DIALOGSTATE_EARLY, DIALOGSTATE_CONFIRMED}
    /\ dlg' = [dlg EXCEPT !.op = "Advance", !.state = dlg.state + 1,
                          !.err = "nil"]
    /\ DialogFrame

\* Dialog.Close(): forces the transition to Terminated.
DialogClose ==
    /\ DialogExists
    /\ dlg' = [dlg EXCEPT !.op = "Close", !.state = DIALOGSTATE_TERMINATED,
                          !.err = "nil"]
    /\ DialogFrame

DialogNext ==
    \/ \E l, r \in 0..1 : NewDialog(l, r)
    \/ IncrementLocalSequenceNumber
    \/ CreateRequest
    \/ RemoteRequest
    \/ DialogAdvance
    \/ DialogClose

DialogSpec == Init /\ [][DialogNext]_vars

(***************************************************************************)
(* Claims about the provider engine                                        *)
(***************************************************************************)

AcceptorRunning(t) == acceptPc[t] \in {"check", "accept", "block"}
ConnRunning(c)     == connPc[c] \in {"check", "read", "send"}
TaskRunning ==
    \/ \E t \in TransportIds : AcceptorRunning(t)
    \/ \E c \in ConnIds : ConnRunning(c)
StopReturned == \E s \in StopperIds : stopPc[s] = "returned"
LoopRunning  == runPc \in {"loop", "join", "leave", "forward"}

\* C1: once Stop() has returned, no acceptor task and no connection task
\* of the provider is running, for every interleaving of Stop() with the
\* asynchronously started Run().
C1_NoTaskAfterStop == StopReturned => ~TaskRunning

\* C2: under fair scheduling every call of Stop() that has raised the
\* shutdown signal eventually returns (unless the process has died).
C2_StopEventuallyReturns ==
    \A s \in StopperIds :
        (stopPc[s] \in {"range", "wait"}) ~> (stopPc[s] = "returned" \/ ~Alive)

\* C3: calling Close() on a transaction two or more times never panics.
C3_CloseNeverPanics == fault # PanicCloseTxQuit

\* C4: a transaction on which Close() has been called reports Terminated.
C4_ClosedIsTerminated ==
    \A x \in TxnIds : txQuit[x] => txState[x] = TRANSACTIONSTATE_TERMINATED

\* The transactions whose GetNew*Transaction call has returned, and the
\* moment at which every registration handed to the loop is applied.
Registered == {x \in TxnIds : regPc[x] = "done"}
Drained    == runPc # "join" /\ \A x \in TxnIds : regPc[x] # "send"

\* C5: once all N registrations sent on the join channel have been
\* processed, the registry holds exactly those N transactions.
C5_NoLostRegistration ==
    Drained => /\ transactions = Registered
               /\ Cardinality(transactions) = Cardinality(Registered)

\* Witness of C5: NumTxns >= 2 transactions have been registered and the
\* control loop has applied all of them.
C5_Witness ==
    /\ Alive
    /\ Drained
    /\ Registered = TxnIds
    /\ Cardinality(transactions) >= 2

\* C6: when Stop() returns the transaction registry is empty, whatever
\* transactions were registered before the call.
C6_RegistryEmptyAfterStop ==
    [][(\E s \in StopperIds : stopPc[s] = "wait" /\ stopPc'[s] = "returned")
         => transactions' = {}]_vars

\* C7: while the control loop is running, the registry maps change only
\* in a step of the control loop, and no caller of Stop() is reading the
\* transaction map.
C7_RegistryOwnedByLoop ==
    [][(LoopRunning /\ Alive')
         => /\ (<<transports, listeners, transactions>>'
                    # <<transports, listeners, transactions>>)
                 => (runPc = "join" /\ runPc' = "loop")
            /\ ~StopRanging']_vars

\* C8: for any number of Stop() calls the shutdown channel is closed once
\* and no call faults.
C8_QuitSignalledOnce == fault # PanicCloseQuit

\* What Run has done with each transport it listened on: no acceptor for
\* one whose Listen returned an error, an acceptor for one whose Listen
\* returned nil, and every configured transport tried before the loop.
ListenOutcomesHonoured ==
    Alive =>
      /\ \A t \in TransportIds :
            /\ listenErr[t] = "error" => acceptPc[t] = "none"
            /\ listenErr[t] = "nil" => acceptPc[t] # "none"
      /\ LoopRunning => \A t \in transports : listenErr[t] # "unset"

\* An acceptor starts only in the step in which Listen returned nil for
\* its transport, and that transport is listened on once.
AcceptorStartedOnce ==
    Alive' =>
      \A t \in TransportIds :
        /\ (acceptPc[t] = "none" /\ acceptPc'[t] # "none") =>
              /\ listenErr[t] = "unset"
              /\ listenErr'[t] = "nil"
              /\ waitGroup' = waitGroup + 1
        /\ listenErr[t] # "unset" => listenErr'[t] = listenErr[t]

\* C19: in Run(), a transport whose Listen fails gets no acceptor task and
\* does not stop startup: every other configured transport whose Listen
\* succeeds gets exactly one acceptor task, and the control loop is
\* entered whatever the number of failed transports (unless the process
\* has died).
C19_FailedListenIsSkipped ==
    /\ []ListenOutcomesHonoured
    /\ [][AcceptorStartedOnce]_vars
    /\ (runPc = "listen") ~> (LoopRunning \/ ~Alive)

\* Witness of C19: the control loop runs although Listen failed on one
\* stream transport, which has no acceptor, while another stream
\* transport, listened on in the same startup, has its acceptor.
C19_Witness ==
    /\ runPc = "loop"
    /\ \E t, u \in StreamTransports :
         /\ {t, u} \subseteq transports
         /\ listenErr[t] = "error"
         /\ acceptPc[t] = "none"
         /\ listenErr[u] = "nil"
         /\ AcceptorRunning(u)

\* C20: Listen() and Dial() on a transport whose network kind is not
\* implemented (anything other than tcp and tls) report an explicit
\* failure, never success without a listener or a connection, and Run()
\* never starts an acceptor task for such a transport.
C20_UnimplementedKindFails ==
    \A t \in TransportIds \ StreamTransports :
        /\ listenErr[t] # "nil"
        /\ acceptPc[t] = "none"
        /\ listenErr[t] # "unset" =>
              \A ok \in BOOLEAN : Dial(NetworkOf(t), ok).err # "nil"

\* C21: every inbound message the control loop receives on the forwarding
\* channel is dispatched to each listener registered at that time
\* (ProcessRequest for a request, ProcessResponse for a response): when
\* the loop has handled a message, every registered listener has been
\* called.
C21_ForwardedIsDispatched ==
    [][(runPc = "forward" /\ runPc' = "loop") => listeners \subseteq notified']_vars

\* C22: every transaction that reaches Terminated, including through
\* Close(), is eventually removed from the provider's transaction
\* registry while the control loop is running.
C22_TerminatedIsDeregistered ==
    \A x \in TxnIds :
        (x \in transactions /\ LoopRunning
           /\ (txQuit[x] \/ txState[x] = TRANSACTIONSTATE_TERMINATED))
        ~> (x \notin transactions \/ ~LoopRunning \/ ~Alive)

\* The state the spec gives a new transaction of a role for a request
\* of a method (TRUE where it names none).
InitialStateIs(st, role, method) ==
    CASE role = "client" /\ method # "INVITE" -> st = TRANSACTIONSTATE_TRYING
      [] role = "client" /\ method = "INVITE" -> st = TRANSACTIONSTATE_CALLING
      [] role = "server" /\ method = "INVITE" -> st = TRANSACTIONSTATE_PROCEEDING
      [] OTHER -> TRUE

\* C23: Terminated is absorbing: once a transaction's state is
\* Terminated, no operation on it (SetState, Close, SendRequest,
\* SendResponse, CreateAck, CreateCancel, SetRetransmitTimer) changes its
\* state to any other value.
C23_TerminatedIsAbsorbing ==
    [][\A x \in TxnIds :
         (txState[x] = TRANSACTIONSTATE_TERMINATED /\ Alive')
           => txState'[x] = TRANSACTIONSTATE_TERMINATED]_vars

\* C24: a newly created transaction's initial state is determined by its
\* role and its request's method class: Trying for a client transaction
\* of a non-INVITE request, Calling for a client transaction of an
\* INVITE, Proceeding for a server transaction of an INVITE.
C24_InitialStateByRoleAndMethod ==
    [][\A x \in TxnIds :
         (regPc[x] = "idle" /\ regPc'[x] # "idle")
           => InitialStateIs(txState'[x], TxRole(x), MethodOf(x))]_vars

\* C25: an operation invoked on a transaction in a state that does not
\* permit it (SendRequest, CreateAck, CreateCancel or SendResponse on a
\* Terminated transaction, one whose state is Terminated or on which
\* Close() has been called) returns an error to the caller.
C25_InvalidStateIsReported ==
    (/\ call.op \in {"SendRequest", "CreateAck", "CreateCancel", "SendResponse"}
     /\ (call.before = TRANSACTIONSTATE_TERMINATED \/ call.closed))
      => call.err # "nil"

\* C26: each call to Dialog.IncrementLocalSequenceNumber increases
\* GetLocalSequenceNumber() by exactly 1, and no dialog operation ever
\* decreases the local or the remote sequence number.
C26_SequenceNumbersAreMonotonic ==
    [][/\ dlg'.localSeq >= dlg.localSeq
       /\ dlg'.remoteSeq >= dlg.remoteSeq
       /\ (dlg' # dlg /\ dlg'.op = "IncrementLocalSequenceNumber")
            => dlg'.localSeq = dlg.localSeq + 1]_vars

\* Witness of C26: IncrementLocalSequenceNumber has been called on a
\* dialog whose counters had both moved before, and the local counter is
\* at its third value.
C26_Witness ==
    /\ dlg.op = "IncrementLocalSequenceNumber"
    /\ dlg.localSeq = 3
    /\ dlg.remoteSeq >= 2
    /\ dlg.state = DIALOGSTATE_CONFIRMED

\* The connection tasks a step starts.
ConnsStarted == {c \in ConnIds : connPc[c] = "none" /\ connPc'[c] # "none"}

RECURSIVE MsgsEndingIn(_, _)
MsgsEndingIn(s, parts) ==
    IF s = <<>> THEN <<>>
    ELSE LET rest == MsgsEndingIn(Tail(s), parts)
         IN  IF Head(s)[2] \in parts THEN <<Head(s)[1]>> \o rest ELSE rest

\* The messages of which the peer wrote every byte, and those of which
\* it wrote the whole head.
CompleteMsgs(s) == MsgsEndingIn(s, {"end", "body"})
HeadMsgs(s)     == MsgsEndingIn(s, {"end", "endcl"})

IsPrefix(a, b) == Len(a) <= Len(b) /\ SubSeq(b, 1, Len(a)) = a

\* Nothing the peer wrote is still on its way: the socket and the
\* reader are empty and no message waits on this.forward.
StreamDrained ==
    /\ sock = <<>>
    /\ rbuf = <<>>
    /\ connPc[StreamConn] \in {"check", "read"}

\* C29: every complete message a peer sends on an accepted connection
\* is parsed and forwarded exactly once and in arrival order, also when
\* messages arrive back-to-back in one read, carry a body, or are split
\* across a read-deadline expiry: once the task has consumed everything
\* the peer wrote, it has forwarded the complete messages, in order and
\* once each, and at most one more of which only the body is missing,
\* and a well-formed stream never makes the task exit.
C29_EveryMessageIsForwarded ==
    Alive =>
        /\ StreamDrained => /\ IsPrefix(CompleteMsgs(sent), fwd)
                            /\ IsPrefix(fwd, HeadMsgs(sent))
        /\ connPc[StreamConn] = "exited" => quit

\* C30: for every transport on which Listen can succeed (tcp and tls),
\* each Accept call made by the acceptor is bounded by a freshly armed
\* deadline, so that the acceptor re-checks the shutdown signal even when
\* no connection ever arrives: no acceptor is in an Accept without a
\* deadline.
C30_AcceptHasDeadline ==
    \A t \in StreamTransports : acceptPc[t] # "block"

\* The transactions whose join the loop has applied, and those whose
\* leave it has applied.
JoinProcessed(x) ==
    /\ regPc[x] \in {"done", "leaving", "left"}
    /\ ~(runPc = "join" /\ runArg = x)
LeaveProcessed(x) ==
    /\ regPc[x] = "left"
    /\ ~(runPc = "leave" /\ runArg = x)

\* C31: the control loop applies join and leave events one at a time in
\* the order it receives them: at every moment the registry is the set
\* of transactions whose join has been processed and whose leave has
\* not, a step changes it by the one transaction the loop received last,
\* and a transaction whose caller issued a join and then a leave is
\* absent once the leave has been processed.
C31_RegistryIsJoinedMinusLeft ==
    /\ [](Alive => transactions = {x \in TxnIds : JoinProcessed(x)
                                                  /\ ~LeaveProcessed(x)})
    /\ [][(Alive' /\ transactions' # transactions)
            => /\ runPc \in {"join", "leave"}
               /\ runArg \in TxnIds
               /\ \A x \in TxnIds \ {runArg} :
                     (x \in transactions') = (x \in transactions)]_vars
    /\ [](Alive => \A x \in TxnIds :
                     LeaveProcessed(x) => x \notin transactions)

\* Witness of C31: of two registered transactions one has left again and
\* the other one is still in the registry.
C31_Witness ==
    /\ Alive
    /\ runPc = "loop"
    /\ \E x, y \in TxnIds :
         /\ LeaveProcessed(x)
         /\ x \notin transactions
         /\ regPc[y] = "done"
         /\ y \in transactions

\* The edges of the lifecycle the spec gives a transaction of a role for
\* a request of a method (every change where it names none).
LifecycleEdge(from, to, role, method) ==
    CASE role = "client" /\ method # "INVITE" ->
            <<from, to>> \in {<<TRANSACTIONSTATE_TRYING, TRANSACTIONSTATE_COMPLETED>>,
                              <<TRANSACTIONSTATE_COMPLETED, TRANSACTIONSTATE_TERMINATED>>}
      [] role = "client" /\ method = "INVITE" ->
            <<from, to>> \in {<<TRANSACTIONSTATE_CALLING, TRANSACTIONSTATE_PROCEEDING>>,
                              <<TRANSACTIONSTATE_PROCEEDING, TRANSACTIONSTATE_COMPLETED>>,
                              <<TRANSACTIONSTATE_COMPLETED, TRANSACTIONSTATE_TERMINATED>>}
      [] role = "server" /\ method = "INVITE" ->
            <<from, to>> \in {<<TRANSACTIONSTATE_PROCEEDING, TRANSACTIONSTATE_COMPLETED>>,
                              <<TRANSACTIONSTATE_COMPLETED, TRANSACTIONSTATE_CONFIRMED>>,
                              <<TRANSACTIONSTATE_CONFIRMED, TRANSACTIONSTATE_TERMINATED>>}
      [] OTHER -> TRUE

\* C32: every change of the state of a transaction the application holds
\* follows an edge of the lifecycle of its role and method class, the
\* only other change being Close() forcing Terminated from any state.
C32_StateFollowsLifecycle ==
    [][\A x \in TxnIds :
         (Alive' /\ regPc[x] = "done" /\ txState'[x] # txState[x])
           => \/ LifecycleEdge(txState[x], txState'[x], TxRole(x), MethodOf(x))
              \/ /\ txQuit'[x] /\ ~txQuit[x]
                 /\ txState'[x] = TRANSACTIONSTATE_TERMINATED]_vars

\* C35: GetNewClientTransaction and GetNewServerTransaction return only
\* after the control loop has received the new transaction on the join
\* channel: the call returns in the step in which the loop, waiting in
\* its select, takes the transaction, and while no control loop is
\* receiving (Run() has not entered the loop, or Stop() made it exit,
\* after which it never receives again) the call stays blocked.
C35_JoinReturnsAtReceive ==
    [][Alive' =>
        /\ \A x \in TxnIds :
             /\ (regPc[x] = "send" /\ regPc'[x] # "send")
                  => /\ runPc = "loop" /\ runPc' = "join" /\ runArg' = x
                     /\ regPc'[x] = "done"
             /\ (regPc[x] = "send" /\ runPc \in {"idle", "listen", "done"})
                  => regPc'[x] = "send"
        /\ runPc = "done" => runPc' = "done"]_vars

\* Witness of C35: one call has returned, and another one, made after
\* Stop() made the loop exit, is blocked in its send.
C35_Witness ==
    /\ Alive
    /\ runPc = "done"
    /\ \E x, y \in TxnIds :
         /\ regPc[x] = "done"
         /\ x \in transactions
         /\ regPc[y] = "send"

\* C34: Stop() completes without fault whatever the registry holds, in
\* particular when a registered transaction has been closed by the
\* application before Stop() closes every registered transaction: no
\* step taken while Stop() ranges over the registry ends the process
\* with the panic of a close.
C34_StopToleratesClosedTransactions ==
    [][(Alive /\ StopRanging) => fault' # PanicCloseTxQuit]_vars

\* A listener is opened by a Listen that returned nil and closed by the
\* deferred t.lner.Close() of its acceptor; an accepted socket is closed
\* by the deferred conn.Close() of its connection task.
ListenerOpen(t) == listenErr[t] = "nil" /\ acceptPc[t] # "exited"
SocketOpen(c)   == connPc[c] \notin {"none", "exited"}

\* C33: when Stop() returns, every listener opened by Run() and every
\* socket accepted by an acceptor has been closed, and every transport
\* of the provider has been closed by Stop().
C33_EverythingClosedAfterStop ==
    [][(\E s \in StopperIds : stopPc[s] = "wait" /\ stopPc'[s] = "returned")
         => /\ \A t \in TransportIds : ~ListenerOpen(t)'
            /\ \A c \in ConnIds : ~SocketOpen(c)'
            /\ transports' \subseteq StopClosesTransports(transports')]_vars

(***************************************************************************)
(* Part 2: the message codec (Message.go)                                  *)
(*                                                                         *)
(* A header name or value is a sequence of one-character strings.          *)
(***************************************************************************)

LowerOf ==
    [c \in {"C", "O", "N", "T", "E", "L", "G", "H", "V", "I", "A"} |->
        CASE c = "C" -> "c" [] c = "O" -> "o" [] c = "N" -> "n"
          [] c = "T" -> "t" [] c = "E" -> "e" [] c = "L" -> "l"
          [] c = "G" -> "g" [] c = "H" -> "h" [] c = "V" -> "v"
          [] c = "I" -> "i" [] c = "A" -> "a"]

ToLower(c) == IF c \in DOMAIN LowerOf THEN LowerOf[c] ELSE c
ToUpper(c) ==
    IF \E u \in DOMAIN LowerOf : LowerOf[u] = c
      THEN CHOOSE u \in DOMAIN LowerOf : LowerOf[u] = c
      ELSE c

\* A header reader that kept the name as it arrived.
CanonicalMIMEHeaderKey_AsReceived(name) == name

\* textproto.CanonicalMIMEHeaderKey, applied by tp.ReadMIMEHeader
\* (Message.go:74) to every header name: the first letter and every
\* letter after a hyphen in upper case, the other letters in lower case.
CanonicalMIMEHeaderKey(name) ==
    [i \in 1..Len(name) |->
        IF i = 1 \/ name[i - 1] = "-" THEN ToUpper(name[i])
                                       ELSE ToLower(name[i])]

ContentLengthKey ==
    <<"C", "o", "n", "t", "e", "n", "t", "-", "L", "e", "n", "g", "t", "h">>

IsSpace(c) == c \in {" ", "\t"}

RECURSIVE TrimLeft(_)
TrimLeft(v) == IF v # <<>> /\ IsSpace(Head(v)) THEN TrimLeft(Tail(v)) ELSE v

RECURSIVE TrimRight(_)
TrimRight(v) ==
    IF v # <<>> /\ IsSpace(v[Len(v)])
      THEN TrimRight(SubSeq(v, 1, Len(v) - 1))
      ELSE v

\* strings.TrimSpace (Message.go:90, 117).
TrimSpace(v) == TrimRight(TrimLeft(v))

\* A header reader that put the latest value of a name first.
HeaderAdd_Prepend(h, k, v) ==
    IF k \in DOMAIN h
      THEN [h EXCEPT ![k] = <<v>> \o @]
      ELSE [x \in DOMAIN h \cup {k} |-> IF x = k THEN <<v>> ELSE h[x]]

\* The header map with one more value under key k.
HeaderAdd(h, k, v) ==
    IF k \in DOMAIN h
      THEN [h EXCEPT ![k] = Append(@, v)]
      ELSE [x \in DOMAIN h \cup {k} |-> IF x = k THEN <<v>> ELSE h[x]]

\* tp.ReadMIMEHeader (Message.go:74-78): the lines up to the blank line
\* folded into a map from the canonical name to the values in arrival
\* order, each value without its leading and trailing blanks.
RECURSIVE ReadMIMEHeader(_, _)
ReadMIMEHeader(h, lines) ==
    IF lines = <<>>
      THEN h
      ELSE ReadMIMEHeader(
               HeaderAdd(h, CanonicalMIMEHeaderKey(Head(lines)[1]),
                         TrimSpace(Head(lines)[2])),
               Tail(lines))

EmptyHeader == <<>>

\* m.GetHeader()["Content-Length"] (Message.go:82).
HeaderGet(h, k) == IF k \in DOMAIN h THEN h[k] ELSE <<>>

\* Lookup of a header by name in whatever letter case: the name is
\* compared in its canonical form.
HeaderLookup(h, name) == HeaderGet(h, CanonicalMIMEHeaderKey(name))

\* m.GetHeader().Del("Content-Length") (Message.go:99).
HeaderDel(h, k) == [x \in DOMAIN h \ {k} |-> h[x]]

DigitValue ==
    [c \in {"0", "1", "2", "3", "4", "5", "6", "7", "8", "9"} |->
        CASE c = "0" -> 0 [] c = "1" -> 1 [] c = "2" -> 2 [] c = "3" -> 3
          [] c = "4" -> 4 [] c = "5" -> 5 [] c = "6" -> 6 [] c = "7" -> 7
          [] c = "8" -> 8 [] c = "9" -> 9]

\* The range of the bitSize 32 passed to strconv.ParseInt (Message.go:121).
MaxInt32 == 2147483647
MinInt32 == 0 - MaxInt32 - 1

\* The decimal digits of v accumulated as a negative number (which has
\* room for the magnitude 2^31), scanning from the left and stopping at
\* the first character that is no digit or that leaves the range.
RECURSIVE ParseDigits(_, _)
ParseDigits(v, acc) ==
    IF v = <<>> THEN [err |-> "nil", m |-> acc]
    ELSE IF Head(v) \notin DOMAIN DigitValue THEN [err |-> "syntax", m |-> 0]
    ELSE IF \/ acc < -214748364
            \/ (acc = -214748364 /\ DigitValue[Head(v)] > 8)
           THEN [err |-> "range", m |-> MinInt32]
    ELSE ParseDigits(Tail(v), acc * 10 - DigitValue[Head(v)])

\* A ParseInt that returned the nearest number of the range without an
\* error when the digits denote a number outside of it.
ParseInt_Clamped(v) ==
    LET neg  == v # <<>> /\ Head(v) = "-"
        sign == v # <<>> /\ Head(v) \in {"+", "-"}
        ds   == IF sign THEN Tail(v) ELSE v
        r    == ParseDigits(ds, 0)
    IN  IF ds = <<>> THEN [err |-> "syntax", n |-> 0]
        ELSE IF r.err = "syntax" THEN [err |-> r.err, n |-> 0]
        ELSE IF r.err = "range" \/ (~neg /\ r.m < 0 - MaxInt32)
               THEN [err |-> "nil", n |-> MaxInt32]
        ELSE [err |-> "nil", n |-> IF neg THEN r.m ELSE 0 - r.m]

\* strconv.ParseInt(cl, 10, 32) (Message.go:121): an optional sign, then
\* one or more decimal digits, within the range of a 32-bit integer.
ParseInt(v) ==
    LET neg  == v # <<>> /\ Head(v) = "-"
        sign == v # <<>> /\ Head(v) \in {"+", "-"}
        ds   == IF sign THEN Tail(v) ELSE v
        r    == ParseDigits(ds, 0)
    IN  IF ds = <<>> THEN [err |-> "syntax", n |-> 0]
        ELSE IF r.err # "nil" THEN [err |-> r.err, n |-> 0]
        ELSE IF ~neg /\ r.m < 0 - MaxInt32 THEN [err |-> "range", n |-> MaxInt32]
        ELSE [err |-> "nil", n |-> IF neg THEN r.m ELSE 0 - r.m]

\* A parseContentLength that let a negative number through.
parseContentLength_Signed(cl) ==
    LET t == TrimSpace(cl)
        r == ParseInt(t)
    IN  IF t = <<>> THEN [err |-> "nil", n |-> -1]
        ELSE IF r.err # "nil"
               THEN [err |-> "bad Content-Length", n |-> 0]
               ELSE [err |-> "nil", n |-> r.n]

\* parseContentLength (Message.go:116-127).
parseContentLength(cl) ==
    LET t == TrimSpace(cl)
        r == ParseInt(t)
    IN  IF t = <<>> THEN [err |-> "nil", n |-> -1]
        ELSE IF r.err # "nil" \/ r.n < 0
               THEN [err |-> "bad Content-Length", n |-> 0]
               ELSE [err |-> "nil", n |-> r.n]

ErrMultipleContentLength ==
    "http: message cannot contain multiple Content-Length headers"

\* A reader that left the length of a message without Content-Length
\* unknown.
AbsentContentLength_Unknown == 0 - 1

\* m.SetContentLength(0) (Message.go:100): the content length of a
\* message that has no Content-Length value.
AbsentContentLength == 0

\* ReadMessage (Message.go:72-112) on the header lines of a message:
\* the error it returns and the fields it has set on the message.
ReadMessage(lines) ==
    LET header      == ReadMIMEHeader(EmptyHeader, lines)
        contentLens == HeaderGet(header, ContentLengthKey)
        cl          == IF Len(contentLens) = 1 THEN TrimSpace(contentLens[1])
                                               ELSE <<>>
        p           == parseContentLength(cl)
    IN  IF Len(contentLens) > 1
          THEN [err |-> ErrMultipleContentLength, header |-> header,
                contentLength |-> 0, body |-> "nil"]
        ELSE IF cl # <<>> /\ p.err # "nil"
          THEN [err |-> p.err, header |-> header,
                contentLength |-> 0, body |-> "nil"]
        ELSE IF cl # <<>>
          THEN [err |-> "nil", header |-> header, contentLength |-> p.n,
                body |-> IF p.n > 0 THEN "body" ELSE "eofReader"]
        ELSE [err |-> "nil", header |-> HeaderDel(header, ContentLengthKey),
              contentLength |-> AbsentContentLength, body |-> "eofReader"]

Min(a, b) == IF a < b THEN a ELSE b

\* io.LimitedReader.Read over the bufio.Reader (body.src, Message.go:106,
\* 221) with a buffer of k bytes, when the stream hands over m bytes:
\* the bytes read and the error.
LimitedRead(limN, stream, k, m) ==
    IF limN <= 0 THEN [n |-> 0, err |-> "EOF"]
    ELSE IF stream = 0 THEN [n |-> 0, err |-> "EOF"]
    ELSE [n |-> m, err |-> "nil"]

\* A body reader that passed the end of the stream on as it came.
ReadLockedErr_NoEarlyCheck(srcErr, n, limN) ==
    IF srcErr = "nil" /\ n > 0 /\ limN = 0 THEN "EOF" ELSE srcErr

\* body.readLocked (Message.go:223-246): the error returned for the
\* result (n, srcErr) of b.src.Read, limN being lr.N after that read.
ReadLockedErr(srcErr, n, limN) ==
    IF srcErr = "EOF"
      THEN IF limN > 0 THEN "unexpected EOF" ELSE "EOF"
    ELSE IF srcErr = "nil" /\ n > 0 /\ limN = 0 THEN "EOF"
    ELSE srcErr

\* body.Read / body.readLocked (Message.go:207-247) and eofReader.Read
\* (Message.go:174) with a buffer of k bytes, when the stream hands over
\* m bytes: the result and the reader's state after the call.
BodyRead(bodyKind, sawEOF, limN, stream, k, m) ==
    IF bodyKind = "eofReader" \/ sawEOF
      THEN [n |-> 0, err |-> "EOF", limN |-> limN, stream |-> stream,
            sawEOF |-> sawEOF]
      ELSE LET r    == LimitedRead(limN, stream, k, m)
               left == limN - r.n
               err  == ReadLockedErr(r.err, r.n, left)
           IN  [n |-> r.n, err |-> err, limN |-> left,
                stream |-> stream - r.n,
                sawEOF |-> (r.err = "EOF" \/ err = "EOF")]

\* The bytes one call may take from the stream: none when the reader is
\* at its end or the stream is, otherwise at least one and no more than
\* the buffer, the limit or the stream hold.
Deliverable(bodyKind, sawEOF, limN, stream, k) ==
    IF bodyKind = "eofReader" \/ sawEOF \/ limN <= 0 \/ stream = 0
      THEN {0}
      ELSE 1..Min(k, Min(limN, stream))

(***************************************************************************)
(* Inputs of the codec                                                     *)
(***************************************************************************)
NameContentLength == ContentLengthKey
NameLower ==
    <<"c", "o", "n", "t", "e", "n", "t", "-", "l", "e", "n", "g", "t", "h">>
NameMixed ==
    <<"C", "O", "N", "T", "E", "N", "T", "-", "l", "e", "n", "g", "t", "h">>
NameVia == <<"V", "i", "a">>
NameViaUpper == <<"V", "I", "A">>

HeaderNames ==
    {NameContentLength, NameLower, NameMixed, NameVia, NameViaUpper}
HeaderValues ==
    {<<"0">>, <<"2">>, <<"3", " ">>, <<"x">>, <<"-", "1">>, <<>>, <<" ">>}
HeaderLines  == HeaderNames \X HeaderValues

InputLines == UNION {[1..n -> HeaderLines] : n \in 0..MaxHeaderLines}

\* A message arrives: its header lines, and the bytes that follow the
\* blank line before the stream ends.
CodecInit ==
    /\ WireIdle
    /\ cPc = "input"
    /\ cLines \in InputLines
    /\ cStream \in 0..MaxStream
    /\ cHeader = EmptyHeader
    /\ cLen = 0
    /\ cBody = "nil"
    /\ cLimN = 0
    /\ cSawEOF = FALSE
    /\ cGot = 0
    /\ cErr = "nil"

\* ReadMessage (Message.go:72-112) is called on the input.
Parse ==
    /\ cPc = "input"
    /\ LET r == ReadMessage(cLines)
       IN  /\ cPc' = IF r.err = "nil" THEN "parsed" ELSE "failed"
           /\ cErr' = r.err
           /\ cHeader' = r.header
           /\ cLen' = r.contentLength
           /\ cBody' = r.body
           /\ cLimN' = IF r.body = "body" THEN r.contentLength ELSE 0
    /\ UNCHANGED <<cLines, cStream, cSawEOF, cGot, wireVars, nonCodecVars>>

\* The consumer of the body calls Read with a buffer of k bytes, and
\* stops at the first error.
ReadBody(k, m) ==
    /\ cPc = "parsed"
    /\ m \in Deliverable(cBody, cSawEOF, cLimN, cStream, k)
    /\ LET r == BodyRead(cBody, cSawEOF, cLimN, cStream, k, m)
       IN  /\ cGot' = cGot + r.n
           /\ cErr' = r.err
           /\ cLimN' = r.limN
           /\ cStream' = r.stream
           /\ cSawEOF' = r.sawEOF
           /\ cPc' = IF r.err = "nil" THEN "parsed" ELSE "done"
    /\ UNCHANGED <<cLines, cHeader, cLen, cBody, wireVars, nonCodecVars>>

CodecNext ==
    \/ Parse
    \/ \E k \in 1..MaxBuf, m \in 0..MaxBuf : ReadBody(k, m)

CodecSpecInit == ProviderInit /\ CodecInit /\ ObjIdle

CodecSpec == CodecSpecInit /\ [][CodecNext]_vars

ErrBodyReadAfterClose == "http: invalid Read on closed Body"

\* body.Close (Message.go:290-326) of a body ReadMessage made, whose
\* doEarlyClose is false, and the Close of eofReader (Message.go:177-183):
\* a body that saw the end is left as it is, another one is copied to
\* ioutil.Discard until readLocked returns an error, of which io.Copy
\* keeps all but EOF.
BodyClose(bodyKind, sawEOF, limN, stream) ==
    IF bodyKind = "eofReader" \/ sawEOF
      THEN [err |-> "nil", limN |-> limN, stream |-> stream,
            sawEOF |-> sawEOF]
      ELSE LET n == Min(limN, stream)
           IN  [err |-> IF stream >= limN THEN "nil" ELSE "unexpected EOF",
                limN |-> limN - n, stream |-> stream - n, sawEOF |-> TRUE]

\* The holder of the message calls Read on its body with a buffer of k
\* bytes, whatever the earlier calls returned (Message.go:207-214).
ReadCall(k, m) ==
    /\ cPc \in {"parsed", "closed"}
    /\ IF cPc = "closed"
         THEN /\ m = 0
              /\ cErr' = ErrBodyReadAfterClose
              /\ UNCHANGED <<cPc, cGot, cLimN, cStream, cSawEOF>>
         ELSE /\ m \in Deliverable(cBody, cSawEOF, cLimN, cStream, k)
              /\ LET r == BodyRead(cBody, cSawEOF, cLimN, cStream, k, m)
                 IN  /\ cGot' = cGot + r.n
                     /\ cErr' = r.err
                     /\ cLimN' = r.limN
                     /\ cStream' = r.stream
                     /\ cSawEOF' = r.sawEOF
              /\ UNCHANGED cPc
    /\ UNCHANGED <<cLines, cHeader, cLen, cBody, wireVars, nonCodecVars>>

\* The holder of the message calls Close on its body; a closed body
\* returns nil (Message.go:293-295).
CloseCall ==
    /\ cPc \in {"parsed", "closed"}
    /\ IF cPc = "closed"
         THEN /\ cErr' = "nil"
              /\ UNCHANGED <<cPc, cLimN, cStream, cSawEOF>>
         ELSE LET r == BodyClose(cBody, cSawEOF, cLimN, cStream)
              IN  /\ cErr' = r.err
                  /\ cLimN' = r.limN
                  /\ cStream' = r.stream
                  /\ cSawEOF' = r.sawEOF
                  /\ cPc' = "closed"
    /\ UNCHANGED <<cLines, cHeader, cLen, cBody, cGot, wireVars, nonCodecVars>>

\* A parsed message whose holder calls Read and Close on the body in any
\* order and any number of times.
BodyNext ==
    \/ Parse
    \/ \E k \in 1..MaxBuf, m \in 0..MaxBuf : ReadCall(k, m)
    \/ CloseCall

BodySpec == CodecSpecInit /\ [][BodyNext]_vars

\* Content-Length values around the ends of the 32-bit range: the nine
\* digits of 2^31 div 10 and of 2^32 div 10 followed by any digit, the
\* same with leading zeros or one digit more, and small numbers written
\* with ten digits.
Digits == {"0", "1", "2", "3", "4", "5", "6", "7", "8", "9"}
LengthPrefixes ==
    {<<"2", "1", "4", "7", "4", "8", "3", "6", "4">>,
     <<"4", "2", "9", "4", "9", "6", "7", "2", "9">>,
     <<"0", "2", "1", "4", "7", "4", "8", "3", "6", "4">>,
     <<"2", "1", "4", "7", "4", "8", "3", "6", "4", "7">>,
     <<"0", "0", "0", "0", "0", "0", "0", "0", "0">>,
     <<"9", "9", "9", "9", "9", "9", "9", "9">>}
LengthValues == {p \o <<d>> : p \in LengthPrefixes, d \in Digits}

\* A message arrives whose only header line is a Content-Length with one
\* of these values.
LengthInit ==
    /\ WireIdle
    /\ cPc = "input"
    /\ cLines \in {<<<<name, v>>>> : name \in {NameContentLength, NameLower},
                                     v \in LengthValues}
    /\ cStream \in 0..MaxStream
    /\ cHeader = EmptyHeader
    /\ cLen = 0
    /\ cBody = "nil"
    /\ cLimN = 0
    /\ cSawEOF = FALSE
    /\ cGot = 0
    /\ cErr = "nil"

LengthSpecInit == ProviderInit /\ LengthInit /\ ObjIdle

LengthSpec == LengthSpecInit /\ [][CodecNext]_vars

(***************************************************************************)
(* Claims about the codec                                                  *)
(***************************************************************************)

\* A header name that is Content-Length in some letter case.
IsContentLength(name) ==
    /\ Len(name) = Len(ContentLengthKey)
    /\ \A i \in 1..Len(name) : ToLower(name[i]) = ToLower(ContentLengthKey[i])

ContentLengthLines ==
    {i \in 1..Len(cLines) : IsContentLength(cLines[i][1])}

ParseReturned == cPc \in {"parsed", "failed", "done"}

\* C9: a message whose header section holds Content-Length more than
\* once, in whatever letter case and with whatever values, fails to parse.
C9_DuplicateContentLengthFails ==
    (ParseReturned /\ Cardinality(ContentLengthLines) > 1)
        => (cPc = "failed" /\ cErr = ErrMultipleContentLength)

\* Witness of C9: a parse has failed on two Content-Length lines that
\* differ in letter case and in value.
C9_Witness ==
    /\ cPc = "failed"
    /\ Len(cLines) = 2
    /\ ContentLengthLines = {1, 2}
    /\ cLines[1][1] # cLines[2][1]
    /\ cLines[1][2] # cLines[2][2]

\* C10: the body of a message with declared length n > 0, read to
\* completion, is n bytes and then end-of-data when the stream held n
\* bytes or more, and ends in a premature-EOF failure otherwise; it never
\* yields more than n bytes.
C10_BodyExactOrPrematureEOF ==
    (cPc \in {"parsed", "done"} /\ cLen > 0)
        => /\ cGot <= cLen
           /\ cPc = "done"
                => IF cStream + cGot >= cLen
                     THEN cGot = cLen /\ cErr = "EOF"
                     ELSE cGot < cLen /\ cErr = "unexpected EOF"

\* Witness of C10: a stream that ended inside the body: the consumer got
\* some of the declared bytes and then the premature-EOF failure.
C10_Witness ==
    /\ cPc = "done"
    /\ cLen > 0
    /\ cGot > 0
    /\ cGot < cLen
    /\ cErr = "unexpected EOF"

\* C36: for any sequence of Read and Close calls on the body of a parsed
\* message with declared content-length n, the bytes taken from the
\* underlying stream never exceed n, and after a Close() that returned
\* no error exactly n bytes have been consumed (cLimN, the N of the
\* LimitedReader, is what is left of n).
C36_CloseConsumesDeclaredLength ==
    (cPc \in {"parsed", "closed"} /\ cBody = "body")
        => /\ cLimN >= 0
           /\ cLimN <= cLen
           /\ (cPc = "closed" /\ cErr = "nil") => cLimN = 0

\* C37: for every message returned by a successful parse,
\* GetContentLength() is greater than or equal to 0: the value -1, which
\* stands for "no declared length", is never exposed on a parsed message.
C37_ContentLengthNeverNegative ==
    (cPc \in {"parsed", "done"}) => cLen >= 0

\* Witness of C37: successfully parsed messages whose only Content-Length
\* line carries no value, for which parseContentLength returns -1.
C37_Witness ==
    /\ cPc = "parsed"
    /\ Cardinality(ContentLengthLines) = 1
    /\ \A i \in ContentLengthLines : TrimSpace(cLines[i][2]) = <<>>
    /\ parseContentLength(cLines[CHOOSE i \in ContentLengthLines : TRUE][2]).n = -1
    /\ cLen = 0

\* C11: a message with no Content-Length header parses successfully with
\* content length 0, a body that yields zero bytes and then end-of-data,
\* and no Content-Length entry in the header map.
C11_AbsentContentLengthIsZero ==
    (ParseReturned /\ ContentLengthLines = {})
        => /\ cPc # "failed"
           /\ cLen = 0
           /\ ContentLengthKey \notin DOMAIN cHeader
           /\ cGot = 0
           /\ cPc = "done" => cErr = "EOF"

\* Witness of C11: a message with a header other than Content-Length and
\* bytes left on the stream has been parsed and its body read to the end.
C11_Witness ==
    /\ cPc = "done"
    /\ Len(cLines) > 0
    /\ ContentLengthLines = {}
    /\ cStream > 0
    /\ cErr = "EOF"

\* The value a header line carries, without its leading and trailing
\* blanks, is a non-empty string of decimal digits.
IsDecimal(v) ==
    /\ TrimSpace(v) # <<>>
    /\ \A i \in 1..Len(TrimSpace(v)) : TrimSpace(v)[i] \in DOMAIN DigitValue

\* The number a string of decimal digits denotes.
RECURSIVE DecimalValue(_)
DecimalValue(ds) ==
    IF ds = <<>> THEN 0
    ELSE DecimalValue(SubSeq(ds, 1, Len(ds) - 1)) * 10 + DigitValue[ds[Len(ds)]]

\* C12: when Content-Length occurs exactly once, the parse succeeds only
\* if its value is a base-10 non-negative integer, and the content length
\* is then that integer; every other value (non-numeric, negative, empty,
\* whitespace-only) makes the parse fail.
C12_SingleContentLengthIsDecimal ==
    (ParseReturned /\ Cardinality(ContentLengthLines) = 1)
        => LET v == cLines[CHOOSE i \in ContentLengthLines : TRUE][2]
           IN  IF IsDecimal(v)
                 THEN cPc # "failed" /\ cLen = DecimalValue(TrimSpace(v))
                 ELSE cPc = "failed"

\* The digits of 2^31 - 1, and decimal strings compared as numbers
\* without computing them.
MaxInt32Digits == <<"2", "1", "4", "7", "4", "8", "3", "6", "4", "7">>

RECURSIVE StripZeros(_)
StripZeros(ds) ==
    IF Len(ds) > 1 /\ Head(ds) = "0" THEN StripZeros(Tail(ds)) ELSE ds

RECURSIVE DigitsLeq(_, _)
DigitsLeq(a, b) ==
    IF a = <<>> THEN TRUE
    ELSE IF DigitValue[Head(a)] # DigitValue[Head(b)]
           THEN DigitValue[Head(a)] < DigitValue[Head(b)]
    ELSE DigitsLeq(Tail(a), Tail(b))

FitsInt32(ds) ==
    LET z == StripZeros(ds)
    IN  \/ Len(z) < Len(MaxInt32Digits)
        \/ Len(z) = Len(MaxInt32Digits) /\ DigitsLeq(z, MaxInt32Digits)

\* C39: a single Content-Length value is accepted only if it fits a
\* signed 32-bit integer: every value from 0 to 2^31-1 parses to itself,
\* and every value of 2^31 or more makes the parse fail instead of
\* wrapping or being truncated.
C39_ContentLengthFitsInt32 ==
    (ParseReturned /\ Cardinality(ContentLengthLines) = 1)
        => LET v == TrimSpace(cLines[CHOOSE i \in ContentLengthLines : TRUE][2])
           IN  (v # <<>> /\ \A i \in 1..Len(v) : v[i] \in Digits)
                 => IF FitsInt32(v)
                      THEN cPc # "failed" /\ cLen = DecimalValue(StripZeros(v))
                      ELSE cPc = "failed" /\ cLen = 0

\* Witness of C39: the largest value that fits has been accepted, with a
\* body bound to that many bytes.
C39_Witness ==
    /\ cPc = "parsed"
    /\ cLines[1][2] = MaxInt32Digits
    /\ cLen = MaxInt32
    /\ cLimN = MaxInt32

\* Two header names that differ in letter case only.
SameName(a, b) ==
    /\ Len(a) = Len(b)
    /\ \A i \in 1..Len(a) : ToLower(a[i]) = ToLower(b[i])

\* The values the input carries under a name, in arrival order.
RECURSIVE ValuesReceived(_, _)
ValuesReceived(lines, name) ==
    IF lines = <<>> THEN <<>>
    ELSE (IF SameName(Head(lines)[1], name)
            THEN <<TrimSpace(Head(lines)[2])>> ELSE <<>>)
         \o ValuesReceived(Tail(lines), name)

LookupNames == HeaderNames \cup {<<"v", "i", "a">>}

RECURSIVE IndexFrom(_, _, _)
IndexFrom(s, ch, i) ==
    IF i > Len(s) THEN 0 - 1
    ELSE IF s[i] = ch THEN i - 1
    ELSE IndexFrom(s, ch, i + 1)

Index(s, ch) == IndexFrom(s, ch, 1)

\* The slice expressions s[a:b] and s[a:] of Go.
Slice(s, a, b)  == SubSeq(s, a + 1, b)
SliceFrom(s, a) == SubSeq(s, a + 1, Len(s))

\* strings.HasPrefix.
HasPrefix(s, prefix) ==
    Len(s) >= Len(prefix) /\ SubSeq(s, 1, Len(prefix)) = prefix

\* The literal "SIP/2.0" (Message.go:40, 150).
SIPVersion20 == <<"S", "I", "P", "/", "2", ".", "0">>

\* const Big (Message.go:148).
Big == 1000000

\* strconv.Atoi: an optional sign and decimal digits (the lines of the
\* model are too short for a number outside the range of ParseInt).
Atoi(v) == ParseInt(v)

\* ParseSIPVersion (Message.go:147-169).
ParseSIPVersion(vers) ==
    LET dot   == Index(vers, ".")
        major == Atoi(Slice(vers, 4, dot))
        minor == Atoi(SliceFrom(vers, dot + 1))
        no    == [major |-> 0, minor |-> 0, ok |-> FALSE]
    IN  IF vers = SIPVersion20 THEN [major |-> 2, minor |-> 0, ok |-> TRUE]
        ELSE IF ~HasPrefix(vers, <<"S", "I", "P", "/">>) THEN no
        ELSE IF dot < 0 THEN no
        ELSE IF major.err # "nil" \/ major.n < 0 \/ major.n > Big THEN no
        ELSE IF minor.err # "nil" \/ minor.n < 0 \/ minor.n > Big THEN no
        ELSE [major |-> major.n, minor |-> minor.n, ok |-> TRUE]

\* parseRequestLine (unnamed/part_003:96-104).
parseRequestLine(line) ==
    LET s1 == Index(line, " ")
        s2 == Index(SliceFrom(line, s1 + 1), " ")
        e2 == s2 + s1 + 1
    IN  IF s1 < 0 \/ s2 < 0
          THEN [ok |-> FALSE, method |-> <<>>, requestURI |-> <<>>,
                proto |-> <<>>]
          ELSE [ok |-> TRUE, method |-> Slice(line, 0, s1),
                requestURI |-> Slice(line, s1 + 1, e2),
                proto |-> SliceFrom(line, e2 + 1)]

\* strings.SplitN(line, " ", 3) (unnamed/part_005:162).
SplitN3(line) ==
    LET i1   == Index(line, " ")
        rest == SliceFrom(line, i1 + 1)
        i2   == Index(rest, " ")
    IN  IF i1 < 0 THEN <<line>>
        ELSE IF i2 < 0 THEN <<Slice(line, 0, i1), rest>>
        ELSE <<Slice(line, 0, i1), Slice(rest, 0, i2), SliceFrom(rest, i2 + 1)>>

ErrMalformedRequest    == "malformed SIP request"
ErrMalformedResponse   == "malformed SIP response"
ErrMalformedVersion    == "malformed SIP version"
ErrMalformedStatusCode == "malformed SIP status code"

\* What a reader returns when it fails before ReadMessage.
FailedRead(err) ==
    [err |-> err, start |-> NoStartLine, header |-> EmptyHeader,
     contentLength |-> 0, body |-> "nil"]

\* What a reader returns after ReadMessage: nil and the error, or the
\* message with its start line.
AfterReadMessage(start, m) ==
    IF m.err # "nil"
      THEN FailedRead(m.err)
      ELSE [err |-> "nil", start |-> start, header |-> m.header,
            contentLength |-> m.contentLength, body |-> m.body]

\* ReadRequest (unnamed/part_003:107-140) on the first line and the
\* header lines of the input.
ReadRequest(line, lines) ==
    LET r == parseRequestLine(line)
    IN  IF ~r.ok THEN FailedRead(ErrMalformedRequest)
        ELSE IF ~ParseSIPVersion(r.proto).ok
          THEN FailedRead(ErrMalformedVersion)
        ELSE AfterReadMessage(
                 [NoStartLine EXCEPT !.method = r.method,
                                     !.requestURI = r.requestURI,
                                     !.sipVersion = r.proto],
                 ReadMessage(lines))

\* ReadResponse (unnamed/part_005:150-189).
ReadResponse(line, lines) ==
    LET f      == SplitN3(line)
        reason == IF Len(f) > 2 THEN f[3] ELSE <<>>
        code   == Atoi(f[2])
    IN  IF Len(f) < 2 THEN FailedRead(ErrMalformedResponse)
        ELSE IF code.err # "nil" THEN FailedRead(ErrMalformedStatusCode)
        ELSE IF ~ParseSIPVersion(f[1]).ok THEN FailedRead(ErrMalformedVersion)
        ELSE AfterReadMessage(
                 [NoStartLine EXCEPT !.sipVersion = f[1],
                                     !.statusCode = code.n,
                                     !.reasonPhrase = reason],
                 ReadMessage(lines))

(***************************************************************************)
(* Inputs of the start-line readers                                        *)
(***************************************************************************)
RECURSIVE JoinSp(_)
JoinSp(toks) ==
    IF Len(toks) = 0 THEN <<>>
    ELSE IF Len(toks) = 1 THEN toks[1]
    ELSE toks[1] \o <<" ">> \o JoinSp(Tail(toks))

SIPVersion30 == <<"S", "I", "P", "/", "3", ".", "0">>

LineTokens ==
    {SIPVersion20, SIPVersion30, <<"A">>, <<"u">>, <<"2", "0", "0">>,
     <<"2", "0">>, <<"+", "2", "0", "0">>, <<>>}

StartLines ==
    {JoinSp(toks) : toks \in UNION {[1..n -> LineTokens] : n \in 1..MaxTokens}}

\* A first line arrives, followed by at most one header line, which
\* ReadMessage accepts, and no body.
LineInit ==
    /\ sLine \in StartLines
    /\ sReader = "none"
    /\ sMsg = NoStartLine
    /\ wPc = "idle"
    /\ wOut1 = NoOutput
    /\ wOut2 = NoOutput
    /\ cPc = "input"
    /\ cLines \in {l \in InputLines : Len(l) <= 1 /\ ReadMessage(l).err = "nil"}
    /\ cStream = 0
    /\ cHeader = EmptyHeader
    /\ cLen = 0
    /\ cBody = "nil"
    /\ cLimN = 0
    /\ cSawEOF = FALSE
    /\ cGot = 0
    /\ cErr = "nil"

\* The result r of a reader is handed to the caller.
Returned(reader, r) ==
    /\ sReader' = reader
    /\ sMsg' = r.start
    /\ cPc' = IF r.err = "nil" THEN "parsed" ELSE "failed"
    /\ cErr' = r.err
    /\ cHeader' = r.header
    /\ cLen' = r.contentLength
    /\ cBody' = r.body
    /\ cLimN' = IF r.body = "body" THEN r.contentLength ELSE 0

\* ReadRequest is called on the input.
ParseRequest ==
    /\ cPc = "input"
    /\ Returned("ReadRequest", ReadRequest(sLine, cLines))
    /\ UNCHANGED <<sLine, wPc, wOut1, wOut2, cLines, cStream, cSawEOF, cGot,
                   nonCodecVars>>

\* ReadResponse is called on the input.
ParseResponse ==
    /\ cPc = "input"
    /\ Returned("ReadResponse", ReadResponse(sLine, cLines))
    /\ UNCHANGED <<sLine, wPc, wOut1, wOut2, cLines, cStream, cSawEOF, cGot,
                   nonCodecVars>>

LineNext == ParseRequest \/ ParseResponse

LineSpecInit == ProviderInit /\ LineInit /\ ObjIdle

LineSpec == LineSpecInit /\ [][LineNext]_vars

(***************************************************************************)
(* Claims about the start line                                             *)
(***************************************************************************)

\* The positions of the blanks of the line, and its first two.
Blanks(line) == {i \in 1..Len(line) : line[i] = " "}
Blank1(line) == CHOOSE i \in Blanks(line) : \A j \in Blanks(line) : i <= j
Blank2(line) ==
    CHOOSE i \in Blanks(line) \ {Blank1(line)} :
        \A j \in Blanks(line) \ {Blank1(line)} : i <= j

\* The number of space-separated tokens of the line, up to three, and the
\* tokens: the third one is the rest of the line.
NumTokens(line) ==
    IF Cardinality(Blanks(line)) >= 2 THEN 3 ELSE Cardinality(Blanks(line)) + 1
Token1(line) ==
    IF Blanks(line) = {} THEN line ELSE SubSeq(line, 1, Blank1(line) - 1)
Token2(line) ==
    IF NumTokens(line) = 3
      THEN SubSeq(line, Blank1(line) + 1, Blank2(line) - 1)
      ELSE SubSeq(line, Blank1(line) + 1, Len(line))
Token3(line) == SubSeq(line, Blank2(line) + 1, Len(line))

StartLineRead == sReader \in {"ReadRequest", "ReadResponse"}
               /\ cPc \in {"parsed", "failed"}

\* The version token of the line: the third token of a request line, the
\* first token of a status line.
VersionToken ==
    IF sReader = "ReadRequest" THEN Token3(sLine) ELSE Token1(sLine)

\* The failures a reader reports for the first line.
StartLineErrors ==
    {ErrMalformedRequest, ErrMalformedResponse, ErrMalformedStatusCode,
     ErrMalformedVersion}

\* C13: a start line of three tokens whose version token is not the
\* literal SIP/2.0 fails (with the malformed-version error, unless another
\* fault of the line is reported first), and every successfully parsed
\* message has the version SIP/2.0.
C13_VersionIsLiteral ==
    StartLineRead
        => /\ (NumTokens(sLine) = 3 /\ VersionToken # SIPVersion20)
                => (cPc = "failed" /\ cErr \in StartLineErrors)
           /\ cPc = "parsed" => sMsg.sipVersion = SIPVersion20

\* C16: a first line of fewer than three space-separated tokens fails
\* with a start-line error, for both readers.
C16_FewerThanThreeTokensFails ==
    (StartLineRead /\ NumTokens(sLine) < 3)
        => (cPc = "failed" /\ cErr \in StartLineErrors)

\* A token of exactly three decimal digits.
IsStatusCode(tok) ==
    Len(tok) = 3 /\ \A i \in 1..3 : tok[i] \in DOMAIN DigitValue

\* C17: a status line (its first token is the version literal) parses
\* only if its second token is a 3-digit decimal number; any other second
\* token fails with the malformed-status-code error; on success the status
\* code is that number and the reason phrase is the whole rest of the line.
C17_StatusCodeIsThreeDigits ==
    (StartLineRead /\ sReader = "ReadResponse" /\ NumTokens(sLine) = 3
       /\ Token1(sLine) = SIPVersion20)
        => IF IsStatusCode(Token2(sLine))
             THEN cPc = "parsed"
                    => /\ sMsg.statusCode = DecimalValue(Token2(sLine))
                       /\ sMsg.reasonPhrase = Token3(sLine)
             ELSE cPc = "failed" /\ cErr = ErrMalformedStatusCode

(***************************************************************************)
(* Part 4: construction and serialization of messages                      *)
(***************************************************************************)

DigitChar == [d \in 0..9 |-> CHOOSE c \in DOMAIN DigitValue : DigitValue[c] = d]

\* The verb %d of fmt.Fprintf (Response.go:127): the decimal digits of n,
\* after a minus sign when n is negative.
RECURSIVE FormatNat(_)
FormatNat(n) ==
    IF n < 10 THEN <<DigitChar[n]>>
              ELSE FormatNat(n \div 10) \o <<DigitChar[n % 10]>>

FormatInt(n) == IF n < 0 THEN <<"-">> \o FormatNat(0 - n) ELSE FormatNat(n)

\* request.StartLineWrite (unnamed/part_003:383-388) and
\* response.StartLineWrite (Response.go:126-131): the first line written,
\* whose version is the literal SIP/2.0.
StartLineWrite(kind, start) ==
    IF kind = "request"
      THEN start.method \o <<" ">> \o start.requestURI \o <<" ">>
             \o SIPVersion20
      ELSE SIPVersion20 \o <<" ">> \o FormatInt(start.statusCode) \o <<" ">>
             \o start.reasonPhrase

\* Whether a message is a request or a response, by the function that
\* made it.
KindOf(reader) ==
    IF reader \in {"ReadRequest", "NewRequest"} THEN "request" ELSE "response"

\* The types of reader the application may pass as a body.
MeasuredReaders == {"bytes.Buffer", "bytes.Reader", "strings.Reader"}
BodyReaders     == MeasuredReaders \cup {"io.Reader"}

\* The content length NewRequest (unnamed/part_003:350-359) and
\* NewResponse (Response.go:93-102) set for a body of len bytes: the type
\* switch knows three types of reader, and leaves 0 for any other.
NewContentLength(bodyKind, len) ==
    IF bodyKind \in MeasuredReaders THEN len ELSE 0

\* The distinct canonical names of the lines, in order of first arrival.
RECURSIVE KeysInOrder(_, _)
KeysInOrder(lines, seen) ==
    IF lines = <<>> THEN <<>>
    ELSE LET k == CanonicalMIMEHeaderKey(Head(lines)[1])
         IN  IF k \in seen
               THEN KeysInOrder(Tail(lines), seen)
               ELSE <<k>> \o KeysInOrder(Tail(lines), seen \cup {k})

\* The lines written for the header map: one line per value, the names in
\* the order given, Content-Length left out.
RECURSIVE HeaderWrite(_, _)
HeaderWrite(h, keys) ==
    IF keys = <<>> THEN <<>>
    ELSE (IF Head(keys) \in DOMAIN h /\ Head(keys) # ContentLengthKey
            THEN [i \in 1..Len(h[Head(keys)]) |-> <<Head(keys), h[Head(keys)][i]>>]
            ELSE <<>>)
         \o HeaderWrite(h, Tail(keys))

\* The bytes the body of a message yields when it is read to its end.
BodyReadAll(bodyKind, limN, stream) ==
    IF bodyKind \in {"nil", "eofReader"} THEN [n |-> 0, err |-> "nil"]
    ELSE IF bodyKind = "body"
      THEN IF stream >= limN THEN [n |-> limN, err |-> "nil"]
                             ELSE [n |-> stream, err |-> "unexpected EOF"]
    ELSE [n |-> stream, err |-> "nil"]

\* A writer that emitted the content length the message carries.
WrittenContentLength_Trusted(contentLength, bodyBytes) == contentLength

\* The Content-Length a message is written with: the number of bytes of
\* its body, whatever content length the message carries.
WrittenContentLength(contentLength, bodyBytes) == bodyBytes

\* Write of a message: the start line, the headers but Content-Length, the
\* computed Content-Length, the blank line and the body.
Write(kind, start, h, keys, contentLength, bodyKind, limN, stream) ==
    LET b == BodyReadAll(bodyKind, limN, stream)
    IN  IF b.err # "nil"
          THEN [NoOutput EXCEPT !.err = b.err]
          ELSE [err |-> "nil",
                line |-> StartLineWrite(kind, start),
                headers |-> HeaderWrite(h, keys)
                    \o <<<<ContentLengthKey,
                           FormatInt(WrittenContentLength(contentLength, b.n))>>>>,
                body |-> b.n]

\* What was written is read back (ReadRequest or ReadResponse over the
\* bytes, as in TestReadRequest, unnamed/part_001:78-92) and written again.
WriteAgain(kind, out) ==
    LET r == IF kind = "request" THEN ReadRequest(out.line, out.headers)
                                 ELSE ReadResponse(out.line, out.headers)
    IN  IF r.err # "nil"
          THEN [NoOutput EXCEPT !.err = r.err]
          ELSE Write(kind, r.start, r.header, KeysInOrder(out.headers, {}),
                     r.contentLength, r.body, r.contentLength, out.body)

(***************************************************************************)
(* Messages that are written: read from an input, or made by the           *)
(* application with NewRequest / NewResponse.                              *)
(***************************************************************************)
WireTokens == {SIPVersion20, SIPVersion30, <<"u">>, <<"+", "2", "0", "0">>}

\* The first lines one of the readers accepts.
WireLines ==
    {l \in {JoinSp(toks) :
               toks \in UNION {[1..n -> WireTokens] : n \in 1..MaxTokens}} :
        \/ ReadRequest(l, <<>>).err = "nil"
        \/ ReadResponse(l, <<>>).err = "nil"}

WireHeaderLines ==
    {NameVia, NameViaUpper, NameLower} \X {<<"2">>, <<"x", " ">>}

WireHeaders == UNION {[1..n -> WireHeaderLines] : n \in 0..MaxHeaderLines}

\* Either a message arrives (first line, header lines, bytes after the
\* blank line), or there is no input and the application makes a message.
WireInit ==
    /\ \/ /\ cPc = "input"
          /\ sLine \in WireLines
          /\ cLines \in WireHeaders
          /\ cStream \in 0..MaxStream
       \/ /\ cPc = "idle"
          /\ sLine = <<>>
          /\ cLines = <<>>
          /\ cStream = 0
    /\ sReader = "none"
    /\ sMsg = NoStartLine
    /\ wPc = "idle"
    /\ wOut1 = NoOutput
    /\ wOut2 = NoOutput
    /\ cHeader = EmptyHeader
    /\ cLen = 0
    /\ cBody = "nil"
    /\ cLimN = 0
    /\ cSawEOF = FALSE
    /\ cGot = 0
    /\ cErr = "nil"

\* The message NewRequest / NewResponse returns for a body of the given
\* type and length ("nil": no body).
Built(maker, start, bodyKind, len) ==
    /\ cPc' = "built"
    /\ sReader' = maker
    /\ sMsg' = start
    /\ cHeader' = EmptyHeader
    /\ cLen' = IF bodyKind = "nil" THEN 0 ELSE NewContentLength(bodyKind, len)
    /\ cBody' = bodyKind
    /\ cStream' = IF bodyKind = "nil" THEN 0 ELSE len
    /\ UNCHANGED <<sLine, wPc, wOut1, wOut2, cLines, cLimN, cSawEOF, cGot,
                   cErr, nonCodecVars>>

\* NewRequest (unnamed/part_003:339-362).
NewRequest(bodyKind, len) ==
    /\ cPc = "idle"
    /\ Built("NewRequest",
             [NoStartLine EXCEPT !.method = <<"A">>, !.requestURI = <<"u">>,
                                 !.sipVersion = SIPVersion20],
             bodyKind, len)

\* NewResponse (Response.go:82-105).
NewResponse(bodyKind, len) ==
    /\ cPc = "idle"
    /\ Built("NewResponse",
             [NoStartLine EXCEPT !.statusCode = 200, !.reasonPhrase = <<"u">>,
                                 !.sipVersion = SIPVersion20],
             bodyKind, len)

Writable == cPc \in {"built", "parsed"} /\ wPc = "idle"

\* message.SetContentLength (Message.go:60-62), called by the application.
SetContentLength(l) ==
    /\ Writable
    /\ l # cLen
    /\ cLen' = l
    /\ UNCHANGED <<wireVars, cPc, cLines, cStream, cHeader, cBody, cLimN,
                   cSawEOF, cGot, cErr, nonCodecVars>>

\* The application puts a Content-Length entry into the header map it got
\* from GetHeader (Message.go:48-50).
PutContentLength(v) ==
    /\ Writable
    /\ ContentLengthKey \notin DOMAIN cHeader
    /\ cHeader' = HeaderAdd(cHeader, ContentLengthKey, v)
    /\ UNCHANGED <<wireVars, cPc, cLines, cStream, cLen, cBody, cLimN,
                   cSawEOF, cGot, cErr, nonCodecVars>>

\* request.Write / response.Write (unnamed/part_003:240-256,
\* unnamed/part_005:131-147) on the message; the body is read by it.
WriteMessage ==
    /\ Writable
    /\ LET b == BodyReadAll(cBody, cLimN, cStream)
       IN  /\ wOut1' = Write(KindOf(sReader), sMsg, cHeader,
                             KeysInOrder(cLines, {}), cLen, cBody, cLimN,
                             cStream)
           /\ cStream' = cStream - b.n
           /\ cLimN' = IF cBody = "body" THEN cLimN - b.n ELSE cLimN
    /\ wPc' = "written"
    /\ UNCHANGED <<sLine, sReader, sMsg, wOut2, cPc, cLines, cHeader, cLen,
                   cBody, cSawEOF, cGot, cErr, nonCodecVars>>

\* The bytes written are read back and written again.
RoundTrip ==
    /\ wPc = "written"
    /\ wOut1.err = "nil"
    /\ wOut2' = WriteAgain(KindOf(sReader), wOut1)
    /\ wPc' = "rewritten"
    /\ UNCHANGED <<sLine, sReader, sMsg, wOut1, cPc, cLines, cStream,
                   cHeader, cLen, cBody, cLimN, cSawEOF, cGot, cErr,
                   nonCodecVars>>

WireNext ==
    \/ ParseRequest
    \/ ParseResponse
    \/ \E k \in BodyReaders \cup {"nil"}, len \in 0..MaxStream :
          NewRequest(k, len)
    \/ \E k \in BodyReaders \cup {"nil"}, len \in 0..MaxStream :
          NewResponse(k, len)
    \/ \E l \in 0..MaxStream : SetContentLength(l)
    \/ \E v \in {<<"0">>, <<"2">>} : PutContentLength(v)
    \/ WriteMessage
    \/ RoundTrip

WireSpecInit == ProviderInit /\ WireInit /\ ObjIdle

WireSpec == WireSpecInit /\ [][WireNext]_vars

ErrWrongSIPVersion == "Wrong SIP Version"

\* A setter that stored whatever it was given.
SetSIPVersionResult_Unchecked(sipVersion, s) ==
    [err |-> "nil", sipVersion |-> s]

\* message.SetSIPVersion (Message.go:39-46): the error returned and the
\* sipVersion field after the call.
SetSIPVersionResult(sipVersion, s) ==
    IF s # SIPVersion20
      THEN [err |-> ErrWrongSIPVersion, sipVersion |-> sipVersion]
      ELSE [err |-> "nil", sipVersion |-> s]

\* The application calls SetSIPVersion(s) on a message it built or got
\* from a reader.
SetSIPVersion(s) ==
    /\ cPc \in {"built", "parsed"}
    /\ LET r == SetSIPVersionResult(sMsg.sipVersion, s)
       IN  /\ sMsg' = [sMsg EXCEPT !.sipVersion = r.sipVersion]
           /\ call' = [NoCall EXCEPT !.op = "SetSIPVersion", !.arg = s,
                                     !.err = r.err]
    /\ UNCHANGED <<provVars, notified, dlg, streamVars, sLine, sReader, wPc,
                   wOut1, wOut2, cPc, cLines, cStream, cHeader, cLen, cBody,
                   cLimN, cSawEOF, cGot, cErr>>

VersionArgs == {SIPVersion20, SIPVersion30, <<>>, <<"s", "i", "p", "/", "2", ".", "0">>}

\* Messages that are built or read, and an application that sets their
\* version.
VersionNext ==
    \/ ParseRequest
    \/ ParseResponse
    \/ \E k \in BodyReaders \cup {"nil"}, len \in 0..MaxStream :
          NewRequest(k, len)
    \/ \E k \in BodyReaders \cup {"nil"}, len \in 0..MaxStream :
          NewResponse(k, len)
    \/ \E v \in VersionArgs : SetSIPVersion(v)

VersionSpec == WireSpecInit /\ [][VersionNext]_vars

\* The fields of the message other than its version.
OtherFields ==
    <<sMsg.method, sMsg.requestURI, sMsg.statusCode, sMsg.reasonPhrase,
      cHeader, cLen, cBody, cLimN, cStream, cSawEOF>>

\* C38: SetSIPVersion(s) with s different from "SIP/2.0" returns an
\* error and leaves the stored version and every other field of the
\* message unchanged, and SetSIPVersion("SIP/2.0") succeeds; so no
\* sequence of SetSIPVersion calls makes the version of a message built
\* by NewRequest / NewResponse differ from "SIP/2.0".
C38_VersionStaysLiteral ==
    /\ [][(call'.op = "SetSIPVersion" /\ call' # call)
            => /\ OtherFields' = OtherFields
               /\ IF call'.arg # SIPVersion20
                    THEN /\ call'.err # "nil"
                         /\ sMsg'.sipVersion = sMsg.sipVersion
                    ELSE /\ call'.err = "nil"
                         /\ sMsg'.sipVersion = SIPVersion20]_vars
    /\ [](sReader \in {"NewRequest", "NewResponse"}
            => sMsg.sipVersion = SIPVersion20)

\* Witness of C38: a built message on which SetSIPVersion("SIP/3.0") has
\* just failed.
C38_Witness ==
    /\ sReader \in {"NewRequest", "NewResponse"}
    /\ cPc = "built"
    /\ call.op = "SetSIPVersion"
    /\ call.arg = SIPVersion30
    /\ call.err = ErrWrongSIPVersion
    /\ sMsg.sipVersion = SIPVersion20

(***************************************************************************)
(* Claims about serialization                                              *)
(***************************************************************************)

WrittenContentLengths ==
    {i \in 1..Len(wOut1.headers) : IsContentLength(wOut1.headers[i][1])}

\* C15: whatever was given to SetContentLength, whatever Content-Length
\* entry the header map held and whatever the type of the body reader, a
\* written message has exactly one Content-Length line, and its value is
\* the number of body bytes written.
C15_WrittenContentLengthIsBodyLength ==
    (wPc \in {"written", "rewritten"} /\ wOut1.err = "nil")
        => /\ Cardinality(WrittenContentLengths) = 1
           /\ \A i \in WrittenContentLengths :
                  /\ IsDecimal(wOut1.headers[i][2])
                  /\ DecimalValue(wOut1.headers[i][2]) = wOut1.body

\* Witness of C15: a request made with a body of a reader type that
\* NewRequest does not measure, a stale Content-Length entry and a content
\* length set by the caller has been written with its two body bytes.
C15_Witness ==
    /\ wPc = "written"
    /\ sReader = "NewRequest"
    /\ cBody = "io.Reader"
    /\ ContentLengthKey \in DOMAIN cHeader
    /\ cHeader[ContentLengthKey] = <<<<"0">>>>
    /\ cLen = 1
    /\ wOut1.body = 2

====
